---- MODULE Spec2Model ----
(***************************************************************************)
(* Model of the sycek C style checker (ccheck): the checker module's       *)
(* token sequence, the AST walk that applies the spacing predicates, the   *)
(* line pass, and the driver that runs the checker over a source file in   *)
(* check mode or in fix mode.                                              *)
(***************************************************************************)
EXTENDS Integers, Sequences, FiniteSets, TLC

VARIABLES
    src,        \* the source file as first given to the driver
    file,       \* current contents of the source file (a sequence of bytes)
    fixed,      \* the file has been rewritten by a fix-mode run
    clean,      \* a check-mode run over src has reported no violation
    phase,      \* position of the driver / of checker_run
    fix,        \* checker_run's fix argument for the current run
    toks,       \* checker->mod->toks: the module's token sequence
    plan,       \* the calls checker_module_check makes on checker->mod->ast
    tokdata,    \* AST token slot k -> id of the checker token it refers to
    pc,         \* checker_module_check: number of calls already made
    cur,        \* checker_module_lines: index of `tok` in toks
    rc,         \* return code of checker_run
    diags,      \* diagnostics printed so far by the current run
    nins,       \* tokens inserted by the current run
    nrem,       \* tokens removed by the current run
    mod,        \* "none": no checker, "NULL": checker->mod is NULL, "mod"
    lost,       \* modules and tokens allocated that no pointer leads to
    lexn,       \* tokens the checker's lexer has delivered
    prevrcs,    \* return codes of the earlier checker_run calls on the checker
    out,        \* the library call made last: its arguments and its result
    heap,       \* the AST objects allocated so far (address = index)
    applog      \* the successful container appends, in the order made

\* the checker's module pointer, its unreachable allocations, the position
\* of its lexer and the results of its earlier runs
mvars == <<mod, lost, lexn, prevrcs>>

\* the variables of the checker and its driver
cvars == <<src, file, fixed, clean, phase, fix, toks, plan, tokdata, pc, cur,
           rc, diags, nins, nrem, mvars>>

\* the variables of the library functions exercised on their own
avars == <<out, heap, applog>>

vars == <<cvars, avars>>

-----------------------------------------------------------------------------
(* Error codes (merrno.h) *)

EOK == "EOK"
ENOMEM == "ENOMEM"
EINVAL == "EINVAL"
EIO == "EIO"

NULL == 0

(* enum in checker.c *)
line_length_limit == 80
cont_indent_spaces == 4

-----------------------------------------------------------------------------
(* Bounds of the model *)

\* longest run of blanks, tabs and newlines put between two tokens of an input
MaxGapLen == 2

-----------------------------------------------------------------------------
(* Generic helpers *)

Min(S) == CHOOSE x \in S : \A y \in S : x <= y

RECURSIVE Concat(_)
Concat(ss) == IF ss = <<>> THEN <<>> ELSE Head(ss) \o Concat(Tail(ss))

RECURSIVE Repeat(_, _)
Repeat(x, n) == IF n <= 0 THEN <<>> ELSE <<x>> \o Repeat(x, n - 1)

-----------------------------------------------------------------------------
(* Source positions (src_pos_t) *)

Pos(l, c) == [line |-> l, col |-> c]

\* a <= b in source order
src_pos_le(a, b) == a.line < b.line \/ (a.line = b.line /\ a.col <= b.col)

\* what printf's %zu writes for n: its decimal digits
RECURSIVE FormatZu(_)
FormatZu(n) ==
    LET d == <<"0", "1", "2", "3", "4", "5", "6", "7", "8", "9">>
    IN  IF n < 10 THEN <<d[n + 1]>>
        ELSE FormatZu(n \div 10) \o <<d[(n % 10) + 1]>>

\* src_pos_print_range(bpos, epos, f): the return code and the characters
\* written to f; wr tells whether fprintf succeeds
src_pos_print_range(bpos, epos, wr) ==
    LET head == <<"f", "i", "l", "e", ":">> \o FormatZu(bpos.line)
                \o <<":">> \o FormatZu(bpos.col)
        text == IF bpos.line = epos.line /\ bpos.col = epos.col
                THEN head
                ELSE IF bpos.line = epos.line
                THEN head \o <<"-">> \o FormatZu(epos.col)
                ELSE head \o <<"-">> \o FormatZu(epos.line) \o <<":">>
                     \o FormatZu(epos.col)
    IN  IF wr THEN [rc |-> EOK, text |-> text]
        ELSE [rc |-> EIO, text |-> <<>>]

\* no call of src_pos_print_range has been made
NoCall == [called |-> FALSE]

-----------------------------------------------------------------------------
(* Lexer: characters to tokens *)

Letters == {"a", "b", "c", "d", "e", "f", "g", "h", "i", "j", "k", "l", "m",
            "n", "o", "p", "q", "r", "s", "t", "u", "v", "w", "x", "y", "z",
            "_"}
Digits == {"0", "1", "2", "3", "4", "5", "6", "7", "8", "9"}

\* keyword table of the lexer: identifier text -> token type
KeywordType(text) ==
    CASE text = <<"i", "n", "t">> -> "ltt_int"
      [] text = <<"v", "o", "i", "d">> -> "ltt_void"
      [] text = <<"r", "e", "t", "u", "r", "n">> -> "ltt_return"
      [] text = <<"i", "f">> -> "ltt_if"
      [] text = <<"e", "l", "s", "e">> -> "ltt_else"
      [] text = <<"w", "h", "i", "l", "e">> -> "ltt_while"
      [] text = <<"d", "o">> -> "ltt_do"
      [] text = <<"s", "w", "i", "t", "c", "h">> -> "ltt_switch"
      [] text = <<"c", "a", "s", "e">> -> "ltt_case"
      [] text = <<"b", "r", "e", "a", "k">> -> "ltt_break"
      [] text = <<"s", "t", "r", "u", "c", "t">> -> "ltt_struct"
      [] text = <<"e", "n", "u", "m">> -> "ltt_enum"
      [] OTHER -> "ltt_ident"

\* punctuators, longest first where one is a prefix of another
Punct2 == {<<"-", "-">>, <<"+", "+">>, <<"=", "=">>}
Punct1 == {"(", ")", "{", "}", ";", ",", "-", "+", "=", "*", ":"}

PunctType(text) ==
    CASE text = <<"(">> -> "ltt_lparen"
      [] text = <<")">> -> "ltt_rparen"
      [] text = <<"{">> -> "ltt_lbrace"
      [] text = <<"}">> -> "ltt_rbrace"
      [] text = <<";">> -> "ltt_scolon"
      [] text = <<",">> -> "ltt_comma"
      [] text = <<"-">> -> "ltt_minus"
      [] text = <<"+">> -> "ltt_plus"
      [] text = <<"=">> -> "ltt_assign"
      [] text = <<"*">> -> "ltt_asterisk"
      [] text = <<":">> -> "ltt_colon"
      [] text = <<"-", "-">> -> "ltt_dec"
      [] text = <<"+", "+">> -> "ltt_inc"
      [] text = <<"=", "=">> -> "ltt_equal"

\* A checker token (checker_tok_t) wrapping a lexer token (lexer_tok_t).
\* id identifies the checker_tok_t object; inserted tokens get id 0.
Tok(id, ttype, text, bpos, epos) ==
    [id |-> id, ttype |-> ttype, text |-> text, bpos |-> bpos, epos |-> epos,
     indlvl |-> 0, lbegin |-> FALSE]

lexer_is_wspace(ltt) == ltt \in {"ltt_space", "ltt_tab", "ltt_newline"}

\* first index >= i of text holding a character outside S (Len+1 if none)
ScanWhile(text, i, S) ==
    Min({j \in i..(Len(text) + 1) : j = Len(text) + 1 \/ text[j] \notin S})

\* first index >= i of text holding a newline (Len+1 if none)
ScanToEol(text, i) ==
    Min({j \in i..(Len(text) + 1) : j = Len(text) + 1 \/ text[j] = "\n"})

\* index after the end of the block comment opened at i, 0 if it is not closed
ScanComment(text, i) ==
    LET ends == {j \in (i + 2)..(Len(text) - 1) :
                    text[j] = "*" /\ text[j + 1] = "/"}
    IN  IF ends = {} THEN 0 ELSE Min(ends) + 2

\* position of the character at index j when the one at index i is at pos
\* (i <= j, positions advance by one column per byte, newline starts a line)
PosAt(text, i, pos, j) ==
    LET nls == {k \in i..(j - 1) : text[k] = "\n"}
    IN  IF nls = {} THEN Pos(pos.line, pos.col + (j - i))
        ELSE Pos(pos.line + Cardinality(nls),
                 j - (CHOOSE k \in nls : \A m \in nls : m <= k))

\* end (exclusive) and type of the token that starts at index i
lexer_next(text, i, bol) ==
    LET c == text[i]
        c2 == IF i < Len(text) THEN text[i + 1] ELSE ""
    IN  CASE c = " " -> [end |-> i + 1, ttype |-> "ltt_space"]
          [] c = "\t" -> [end |-> i + 1, ttype |-> "ltt_tab"]
          [] c = "\n" -> [end |-> i + 1, ttype |-> "ltt_newline"]
          [] c = "#" /\ bol ->
                [end |-> ScanToEol(text, i), ttype |-> "ltt_preproc"]
          [] c = "/" /\ c2 = "/" ->
                [end |-> ScanToEol(text, i), ttype |-> "ltt_comment"]
          [] c = "/" /\ c2 = "*" ->
                LET e == ScanComment(text, i)
                IN  IF e = 0 THEN [end |-> i + 1, ttype |-> "ltt_invalid"]
                    ELSE IF i + 2 <= Len(text) /\ text[i + 2] = "*" /\ e > i + 4
                    THEN [end |-> e, ttype |-> "ltt_dscomment"]
                    ELSE [end |-> e, ttype |-> "ltt_comment"]
          [] c \in Letters ->
                LET e == ScanWhile(text, i, Letters \cup Digits)
                IN  [end |-> e, ttype |-> KeywordType(SubSeq(text, i, e - 1))]
          [] c \in Digits ->
                [end |-> ScanWhile(text, i, Digits), ttype |-> "ltt_number"]
          [] c \in Punct1 /\ <<c, c2>> \in Punct2 ->
                [end |-> i + 2, ttype |-> PunctType(<<c, c2>>)]
          [] c \in Punct1 ->
                [end |-> i + 1, ttype |-> PunctType(<<c>>)]
          [] OTHER -> [end |-> i + 1, ttype |-> "ltt_invalid"]

\* The tokens the lexer emits for text from index i on; n tokens were emitted
\* before, pos is the position of index i, bol tells that only whitespace
\* precedes index i on its line.
RECURSIVE lexer_get_toks(_, _, _, _, _)
lexer_get_toks(text, i, n, pos, bol) ==
    IF i > Len(text)
    THEN <<Tok(n + 1, "ltt_eof", <<>>, pos, pos)>>
    ELSE LET t == lexer_next(text, i, bol)
             epos == PosAt(text, i, pos, t.end - 1)
             npos == PosAt(text, i, pos, t.end)
             nbol == t.ttype = "ltt_newline" \/
                     (bol /\ t.ttype \in {"ltt_space", "ltt_tab"})
         IN  <<Tok(n + 1, t.ttype, SubSeq(text, i, t.end - 1), pos, epos)>>
             \o lexer_get_toks(text, t.end, n + 1, npos, nbol)

LexFile(text) == lexer_get_toks(text, 1, 0, Pos(1, 1), TRUE)

-----------------------------------------------------------------------------
(* The module's token sequence *)

\* index in ts of the checker token with identity id (0 if it is not linked)
TokIndex(ts, id) ==
    IF \E i \in 1..Len(ts) : ts[i].id = id
    THEN CHOOSE i \in 1..Len(ts) : ts[i].id = id
    ELSE 0

\* A whitespace token made by checker_prepend_wspace / checker_append_wspace:
\* calloc leaves its positions, indlvl and lbegin zero.
NewWspace(ltt, wstext) == Tok(0, ltt, wstext, Pos(0, 0), Pos(0, 0))

\* index of the previous / next token, NULL at the ends of the list
checker_prev_tok(ts, i) == IF i = NULL \/ i <= 1 THEN NULL ELSE i - 1

checker_next_tok(ts, i) == IF i = NULL \/ i >= Len(ts) THEN NULL ELSE i + 1

\* first index of the run of space/tab tokens that ends right before i
LineWsStart(ts, i) ==
    Min({j \in 1..i : \A k \in j..(i - 1) :
            lexer_is_wspace(ts[k].ttype) /\ ts[k].ttype # "ltt_newline"})

\* first index of the run of whitespace tokens that ends right before i
WsStart(ts, i) ==
    Min({j \in 1..i : \A k \in j..(i - 1) : lexer_is_wspace(ts[k].ttype)})

\* index after the run of whitespace tokens that starts right after i
WsEnd(ts, i) ==
    Min({j \in (i + 1)..(Len(ts) + 1) :
            j = Len(ts) + 1 \/ ~lexer_is_wspace(ts[j].ttype)})

checker_is_tok_lbegin(ts, i) ==
    LET p == checker_prev_tok(ts, LineWsStart(ts, i))
    IN  p = NULL \/ ts[p].ttype = "ltt_newline"

\* checker_prepend_wspace that links the new token after the given one
prepend_wspace_after(ts, i, ltt, wstext) ==
    SubSeq(ts, 1, i) \o <<NewWspace(ltt, wstext)>> \o SubSeq(ts, i + 1, Len(ts))

checker_prepend_wspace(ts, i, ltt, wstext) ==
    SubSeq(ts, 1, i - 1) \o <<NewWspace(ltt, wstext)>> \o SubSeq(ts, i, Len(ts))

checker_append_wspace(ts, i, ltt, wstext) ==
    SubSeq(ts, 1, i) \o <<NewWspace(ltt, wstext)>> \o SubSeq(ts, i + 1, Len(ts))

checker_remove_token(ts, i) ==
    SubSeq(ts, 1, i - 1) \o SubSeq(ts, i + 1, Len(ts))

\* the tokens of ts with those at indices lo..hi removed one by one
RECURSIVE RemoveRange(_, _, _)
RemoveRange(ts, lo, hi) ==
    IF hi < lo THEN ts ELSE RemoveRange(checker_remove_token(ts, hi), lo, hi - 1)

\* checker_remove_ws_before whose loop tests the token type after removing:
\* the token before the whitespace run goes as well
remove_ws_before_one_more(ts, i) ==
    RemoveRange(ts, IF WsStart(ts, i) > 1 /\ WsStart(ts, i) < i
                    THEN WsStart(ts, i) - 1 ELSE WsStart(ts, i), i - 1)

checker_remove_ws_before(ts, i) == RemoveRange(ts, WsStart(ts, i), i - 1)

checker_line_remove_ws_before(ts, i) ==
    RemoveRange(ts, LineWsStart(ts, i), i - 1)

\* checker_remove_ws_after whose loop stops one token late: the token that
\* ends the whitespace run goes as well
remove_ws_after_one_more(ts, i) ==
    RemoveRange(ts, i + 1, Min({WsEnd(ts, i), Len(ts) - 1}))

checker_remove_ws_after(ts, i) == RemoveRange(ts, i + 1, WsEnd(ts, i) - 1)

\* ws prepended before the token at index i, one checker_prepend_wspace call
\* per element, in order
RECURSIVE PrependAll(_, _, _)
PrependAll(ts, i, ws) ==
    IF ws = <<>> THEN ts
    ELSE PrependAll(checker_prepend_wspace(ts, i, Head(ws).ltt, Head(ws).text),
                    i + 1, Tail(ws))

Ws(ltt, text) == [ltt |-> ltt, text |-> text]
WsNewline == Ws("ltt_newline", <<"\n">>)
WsTab == Ws("ltt_tab", <<"\t">>)
WsSpace == Ws("ltt_space", <<" ">>)

\* A diagnostic: lexer_dprint_tok prints the token's position range, printf
\* the message with its two numbers (0 where the message has none)
Diag(t, msg, a, b) ==
    [bpos |-> t.bpos, epos |-> t.epos, msg |-> msg, a |-> a, b |-> b]

-----------------------------------------------------------------------------
(* The AST walk.  An AST node is a record with its node type (ntype), its  *)
(* token slots (the number of the grammar token, NULL for an empty slot)   *)
(* and its children.  The walk does not depend on the token sequence, so   *)
(* it is given as the sequence of calls it makes: the spacing predicate,   *)
(* the token slot, scope->indlvl and the message.  Allocating a scope is   *)
(* a call as well, since it can fail.                                      *)

Call(op, tok, indlvl, msg) ==
    [op |-> op, tok |-> tok, indlvl |-> indlvl, msg |-> msg]

call_any(lvl, tok) == <<Call("any", tok, lvl, "")>>
call_lbegin(lvl, tok, msg) == <<Call("lbegin", tok, lvl, msg)>>
call_nows_before(lvl, tok, msg) ==
    <<Call("nows_before", tok, lvl, msg)>>
call_nows_after(lvl, tok, msg) == <<Call("nows_after", tok, lvl, msg)>>
call_nsbrk_after(lvl, tok, msg) ==
    <<Call("nsbrk_after", tok, lvl, msg)>>
call_brkspace_before(lvl, tok, msg) ==
    <<Call("brkspace_before", tok, lvl, msg)>>
call_brkspace_after(lvl, tok, msg) ==
    <<Call("brkspace_after", tok, lvl, msg)>>
call_nbspace_before(lvl, tok, msg) ==
    <<Call("nbspace_before", tok, lvl, msg)>>

call_scope_toplvl == <<Call("scope_toplvl", NULL, 0, "")>>
call_scope_nested(lvl) == <<Call("scope_nested", NULL, lvl + 1, "")>>

ANull == [ntype |-> "NULL"]

RECURSIVE ast_tree_first_tok(_)
RECURSIVE ast_expr_first_tok(_)
RECURSIVE checker_check_decl(_, _)
RECURSIVE checker_check_dlist(_, _)
RECURSIVE checker_check_dspecs(_, _)
RECURSIVE checker_check_sqlist(_, _)
RECURSIVE checker_check_tspec(_, _)
RECURSIVE checker_check_block(_, _)
RECURSIVE checker_check_stmt(_, _)
RECURSIVE checker_check_expr(_, _)

\* first token slot of an expression
ast_expr_first_tok(e) ==
    CASE e.ntype \in {"ant_eint", "ant_echar", "ant_estring"} -> e.tlit
      [] e.ntype = "ant_eident" -> e.tident
      [] e.ntype = "ant_eparen" -> e.tlparen
      [] e.ntype \in {"ant_ebinop", "ant_ecomma"} -> ast_expr_first_tok(e.larg)
      [] e.ntype = "ant_etcond" -> ast_expr_first_tok(e.cond)
      [] e.ntype = "ant_efuncall" -> ast_expr_first_tok(e.fexpr)
      [] e.ntype \in {"ant_eindex", "ant_emember", "ant_eindmember",
                      "ant_epostadj"} -> ast_expr_first_tok(e.bexpr)
      [] e.ntype = "ant_ederef" -> e.tasterisk
      [] e.ntype = "ant_eaddr" -> e.tamper
      [] e.ntype = "ant_esizeof" -> e.tsizeof
      [] e.ntype = "ant_eusign" -> e.tsign
      [] e.ntype = "ant_elnot" -> e.tlnot
      [] e.ntype = "ant_ebnot" -> e.tbnot
      [] e.ntype = "ant_epreadj" -> e.tadj

\* first token slot of a declaration node, NULL if it has no token
ast_tree_first_tok(n) ==
    CASE n.ntype = "ant_sclass" -> n.tsclass
      [] n.ntype = "ant_tqual" -> n.tqual
      [] n.ntype = "ant_tsbasic" -> n.tbasic
      [] n.ntype = "ant_tsident" -> n.tident
      [] n.ntype = "ant_tsrecord" -> n.tsu
      [] n.ntype = "ant_tsenum" -> n.tenum
      [] n.ntype = "ant_fspec" -> n.tfspec
      [] n.ntype \in {"ant_sqlist", "ant_dspecs"} ->
            ast_tree_first_tok(n.elems[1])
      [] n.ntype = "ant_dident" -> n.tident
      [] n.ntype = "ant_dnoident" -> NULL
      [] n.ntype = "ant_dparen" -> n.tlparen
      [] n.ntype = "ant_dptr" -> n.tasterisk
      [] n.ntype \in {"ant_dfun", "ant_darray"} ->
            LET tok == ast_tree_first_tok(n.bdecl)
            IN  IF tok # NULL THEN tok
                ELSE IF n.ntype = "ant_dfun" THEN n.tlparen ELSE n.tlbracket
      [] n.ntype = "ant_dlist" ->
            LET tok == ast_tree_first_tok(n.decls[1].decl)
            IN  IF tok # NULL THEN tok
                ELSE IF Len(n.decls) < 2 THEN NULL
                ELSE n.decls[2].tcomma

\* the calls of f on every element of the list s, in list order
ForEach(s, f(_)) == Concat([i \in 1..Len(s) |-> f(s[i])])

(* Statements *)

checker_check_break(lvl, s) ==
    call_lbegin(lvl, s.tbreak, "Statement must start on a new line.")
    \o call_nows_before(lvl, s.tscolon,
                                 "Unexpected whitespace before ';'.")

checker_check_continue(lvl, s) ==
    call_lbegin(lvl, s.tcontinue,
                         "Statement must start on a new line.")
    \o call_nows_before(lvl, s.tscolon,
                                 "Unexpected whitespace before ';'.")

checker_check_goto(lvl, s) ==
    call_lbegin(lvl, s.tgoto, "Statement must start on a new line.")
    \o call_any(lvl, s.ttarget)
    \o call_nows_before(lvl, s.tscolon,
                                 "Unexpected whitespace before ';'.")

checker_check_return(lvl, s) ==
    call_lbegin(lvl, s.treturn, "Statement must start on a new line.")
    \o checker_check_expr(lvl, s.arg)
    \o call_nows_before(lvl, s.tscolon,
                                 "Unexpected whitespace before ';'.")

checker_check_if(lvl, s) ==
    call_lbegin(lvl, s.tif, "Statement must start on a new line.")
    \o call_nbspace_before(lvl, s.tlparen,
           "There must be single space between 'if' and '('.")
    \o call_nsbrk_after(lvl, s.tlparen,
           "There must not be space after '('.")
    \o checker_check_expr(lvl, s.cond)
    \o call_nows_before(lvl, s.trparen,
           "There must not be whitespace before ')'.")
    \o checker_check_block(lvl, s.tbranch)
    \o (IF s.fbranch # ANull
        THEN (IF s.tbranch.braces
              THEN call_nbspace_before(lvl, s.telse,
                       "There must be single space between '}' and 'else'.")
              ELSE call_lbegin(lvl, s.telse,
                       "'else' must begin on a new line."))
             \o checker_check_block(lvl, s.fbranch)
        ELSE <<>>)

checker_check_while(lvl, s) ==
    call_lbegin(lvl, s.twhile, "Statement must start on a new line.")
    \o call_nbspace_before(lvl, s.tlparen,
           "There must be single space between 'while' and '('.")
    \o call_nsbrk_after(lvl, s.tlparen,
           "There must not be space after '('.")
    \o checker_check_expr(lvl, s.cond)
    \o call_nows_before(lvl, s.trparen,
           "Unexpected whitespace before ')'.")
    \o checker_check_block(lvl, s.body)

checker_check_do(lvl, s) ==
    call_lbegin(lvl, s.tdo, "Statement must start on a new line.")
    \o checker_check_block(lvl, s.body)
    \o (IF s.body.braces
        THEN call_nbspace_before(lvl, s.twhile,
                 "There must be single space between '}' and 'while'.")
        ELSE call_lbegin(lvl, s.twhile,
                 "'while' must begin on a new line."))
    \o call_nbspace_before(lvl, s.tlparen,
           "There must be single space between 'while' and '('.")
    \o call_nsbrk_after(lvl, s.tlparen,
           "There must not be space after '('.")
    \o checker_check_expr(lvl, s.cond)
    \o call_nows_before(lvl, s.trparen,
           "Unexpected whitespace before ')'.")
    \o call_nows_before(lvl, s.tscolon,
           "Unexpected whitespace before ';'.")

checker_check_for(lvl, s) ==
    call_lbegin(lvl, s.tfor, "Statement must start on a new line.")
    \o call_nbspace_before(lvl, s.tlparen,
           "There must be single space between 'for' and '('.")
    \o call_nsbrk_after(lvl, s.tlparen,
           "There must not be space after '('.")
    \o checker_check_expr(lvl, s.linit)
    \o call_nows_before(lvl, s.tscolon1,
           "Unexpected whitespace before ';'.")
    \o call_brkspace_after(lvl, s.tscolon1, "Expected space after ';'.")
    \o checker_check_expr(lvl, s.lcond)
    \o call_nows_before(lvl, s.tscolon2,
           "Unexpected whitespace before ';'.")
    \o call_brkspace_after(lvl, s.tscolon2, "Expected space after ';'.")
    \o checker_check_expr(lvl, s.lnext)
    \o call_nows_before(lvl, s.trparen,
           "Unexpected whitespace before ')'.")
    \o checker_check_block(lvl, s.body)

checker_check_switch(lvl, s) ==
    call_lbegin(lvl, s.tswitch, "Statement must start on a new line.")
    \o call_nbspace_before(lvl, s.tlparen,
           "There must be single space between 'switch' and '('.")
    \o call_nsbrk_after(lvl, s.tlparen,
           "There must not be space after '('.")
    \o checker_check_expr(lvl, s.sexpr)
    \o call_nows_before(lvl, s.trparen,
           "Unexpected whitespace before ')'.")
    \o checker_check_block(lvl, s.body)

\* checker_check_clabel that restores scope->indlvl only before it returns
clabel_restore_late(lvl, s) ==
    call_lbegin(lvl - 1, s.tcase,
                         "Case label must start on a new line.")
    \o call_nbspace_before(lvl - 1, ast_expr_first_tok(s.cexpr),
           "There must be single space between 'case' and case expression.")
    \o checker_check_expr(lvl - 1, s.cexpr)
    \o call_nows_before(lvl - 1, s.tcolon,
           "Unexpected whitespace before ':'.")

checker_check_clabel(lvl, s) ==
    \* case labels have one less level of indentation
    call_lbegin(lvl - 1, s.tcase,
                         "Case label must start on a new line.")
    \o call_nbspace_before(lvl, ast_expr_first_tok(s.cexpr),
           "There must be single space between 'case' and case expression.")
    \o checker_check_expr(lvl, s.cexpr)
    \o call_nows_before(lvl, s.tcolon,
           "Unexpected whitespace before ':'.")

checker_check_glabel(lvl, s) ==
    \* goto labels have one less level of indentation
    call_lbegin(lvl - 1, s.tlabel, "Label must start on a new line.")
    \o call_nows_before(lvl, s.tcolon,
           "Unexpected whitespace before ':'.")

checker_check_stexpr(lvl, s) ==
    call_lbegin(lvl, ast_expr_first_tok(s.expr),
                         "Statement must start on a new line.")
    \o checker_check_expr(lvl, s.expr)
    \o call_nows_before(lvl, s.tscolon,
                                 "Unexpected whitespace before ';'.")

checker_check_stmt(lvl, s) ==
    CASE s.ntype = "ant_break" -> checker_check_break(lvl, s)
      [] s.ntype = "ant_continue" -> checker_check_continue(lvl, s)
      [] s.ntype = "ant_goto" -> checker_check_goto(lvl, s)
      [] s.ntype = "ant_return" -> checker_check_return(lvl, s)
      [] s.ntype = "ant_if" -> checker_check_if(lvl, s)
      [] s.ntype = "ant_while" -> checker_check_while(lvl, s)
      [] s.ntype = "ant_do" -> checker_check_do(lvl, s)
      [] s.ntype = "ant_for" -> checker_check_for(lvl, s)
      [] s.ntype = "ant_switch" -> checker_check_switch(lvl, s)
      [] s.ntype = "ant_clabel" -> checker_check_clabel(lvl, s)
      [] s.ntype = "ant_glabel" -> checker_check_glabel(lvl, s)
      [] s.ntype = "ant_stexpr" -> checker_check_stexpr(lvl, s)

checker_check_block(lvl, b) ==
    (IF b.braces
     THEN call_nbspace_before(lvl, b.topen,
              "Expected single space before block opening brace.")
     ELSE <<>>)
    \o call_scope_nested(lvl)
    \o ForEach(b.stmts, LAMBDA s : checker_check_stmt(lvl + 1, s))
    \o (IF b.braces
        THEN call_lbegin(lvl, b.tclose,
                 "Block closing brace must start on a new line.")
        ELSE <<>>)

(* Declarators and declaration specifiers *)

checker_check_dident(lvl, d) == call_any(lvl, d.tident)

checker_check_dparen(lvl, d) ==
    call_nows_after(lvl, d.tlparen, "Unexpected whitespace after '('.")
    \o call_nows_before(lvl, d.trparen,
                                 "Unexpected whitespace before ')'.")
    \o checker_check_decl(lvl, d.bdecl)

checker_check_dptr(lvl, d) ==
    call_nows_after(lvl, d.tasterisk,
                             "Unexpected whitespace after '*'.")
    \o checker_check_decl(lvl, d.bdecl)

checker_check_dfun_arg(lvl, arg) ==
    checker_check_dspecs(lvl, arg.dspecs)
    \o (IF ast_tree_first_tok(arg.decl) # NULL
        THEN call_brkspace_before(lvl, ast_tree_first_tok(arg.decl),
                 "Expected space before declarator.")
        ELSE <<>>)
    \o checker_check_decl(lvl, arg.decl)
    \o (IF arg.tcomma # NULL
        THEN call_nows_before(lvl, arg.tcomma,
                 "Unexpected whitespace before ','.")
             \o call_brkspace_after(lvl, arg.tcomma,
                    "Expected whitespace after ','.")
        ELSE <<>>)

checker_check_dfun(lvl, d) ==
    checker_check_decl(lvl, d.bdecl)
    \o call_nsbrk_after(lvl, d.tlparen,
                                 "Unexpected space or tab after '('.")
    \o ForEach(d.args, LAMBDA arg : checker_check_dfun_arg(lvl, arg))
    \o call_nows_before(lvl, d.trparen,
                                 "Unexpected whitespace before ')'.")

checker_check_darray(lvl, d) ==
    checker_check_decl(lvl, d.bdecl)
    \o call_nows_after(lvl, d.tlbracket,
                                "Unexpected whitespace after '['.")
    \o call_nows_before(lvl, d.trbracket,
                                 "Unexpected whitespace before ']'.")

checker_check_decl(lvl, d) ==
    CASE d.ntype = "ant_dnoident" -> <<>>
      [] d.ntype = "ant_dident" -> checker_check_dident(lvl, d)
      [] d.ntype = "ant_dparen" -> checker_check_dparen(lvl, d)
      [] d.ntype = "ant_dptr" -> checker_check_dptr(lvl, d)
      [] d.ntype = "ant_dfun" -> checker_check_dfun(lvl, d)
      [] d.ntype = "ant_darray" -> checker_check_darray(lvl, d)

checker_check_dlist(lvl, dl) ==
    ForEach(dl.decls, LAMBDA entry :
        (IF entry.tcomma # NULL
         THEN call_nows_before(lvl, entry.tcomma,
                  "Unexpected whitespace before ','.")
         ELSE <<>>)
        \o checker_check_decl(lvl, entry.decl))

checker_check_sclass(lvl, n) == call_any(lvl, n.tsclass)
checker_check_fspec(lvl, n) == call_any(lvl, n.tfspec)
checker_check_tqual(lvl, n) == call_any(lvl, n.tqual)
checker_check_tsbasic(lvl, n) == call_any(lvl, n.tbasic)
checker_check_tsident(lvl, n) == call_any(lvl, n.tident)

checker_check_tsrecord_elem(lvl, elem) ==
    call_lbegin(lvl, ast_tree_first_tok(elem.sqlist),
        "Record element declaration must start on a new line.")
    \o checker_check_sqlist(lvl, elem.sqlist)
    \o (IF ast_tree_first_tok(elem.dlist) # NULL
        THEN call_brkspace_before(lvl, ast_tree_first_tok(elem.dlist),
                 "Expected space before declarator.")
        ELSE <<>>)
    \o checker_check_dlist(lvl, elem.dlist)
    \o call_nows_before(lvl, elem.tscolon,
                                 "Unexpected whitespace before ';'.")

checker_check_tsrecord(lvl, n) ==
    call_scope_nested(lvl)
    \o call_any(lvl, n.tsu)
    \o (IF n.tident # NULL THEN call_any(lvl, n.tident) ELSE <<>>)
    \o (IF n.tlbrace # NULL
        THEN call_nbspace_before(lvl, n.tlbrace,
                                          "Expected single space before '{'.")
        ELSE <<>>)
    \o ForEach(n.elems, LAMBDA elem : checker_check_tsrecord_elem(lvl + 1, elem))
    \o (IF n.trbrace # NULL
        THEN call_lbegin(lvl, n.trbrace,
                                  "'}' must begin on a new line.")
        ELSE <<>>)

checker_check_tsenum_elem(lvl, elem) ==
    call_lbegin(lvl, elem.tident,
                         "Enum field must begin on a new line.")
    \o (IF elem.tequals # NULL
        THEN call_nbspace_before(lvl, elem.tequals,
                                          "Expected space before '='.")
             \o call_nbspace_before(lvl, elem.tinit,
                    "Expected whitespace before initializer.")
        ELSE <<>>)
    \o (IF elem.tcomma # NULL
        THEN call_nows_before(lvl, elem.tcomma,
                                       "Unexpected whitespace before ','.")
        ELSE <<>>)

\* checker_check_tsenum that checks the enumerators in the outer scope
tsenum_elems_outer_scope(lvl, n) ==
    call_scope_nested(lvl)
    \o call_any(lvl, n.tenum)
    \o (IF n.tident # NULL THEN call_any(lvl, n.tident) ELSE <<>>)
    \o (IF n.tlbrace # NULL
        THEN call_nbspace_before(lvl, n.tlbrace,
                                          "Expected single space before '{'.")
        ELSE <<>>)
    \o ForEach(n.elems, LAMBDA elem : checker_check_tsenum_elem(lvl, elem))
    \o (IF n.trbrace # NULL
        THEN call_lbegin(lvl, n.trbrace,
                                  "'}' must begin on a new line.")
        ELSE <<>>)

checker_check_tsenum(lvl, n) ==
    call_scope_nested(lvl)
    \o call_any(lvl, n.tenum)
    \o (IF n.tident # NULL THEN call_any(lvl, n.tident) ELSE <<>>)
    \o (IF n.tlbrace # NULL
        THEN call_nbspace_before(lvl, n.tlbrace,
                                          "Expected single space before '{'.")
        ELSE <<>>)
    \o ForEach(n.elems, LAMBDA elem : checker_check_tsenum_elem(lvl + 1, elem))
    \o (IF n.trbrace # NULL
        THEN call_lbegin(lvl, n.trbrace,
                                  "'}' must begin on a new line.")
        ELSE <<>>)

checker_check_tspec(lvl, n) ==
    CASE n.ntype = "ant_tsbasic" -> checker_check_tsbasic(lvl, n)
      [] n.ntype = "ant_tsident" -> checker_check_tsident(lvl, n)
      [] n.ntype = "ant_tsrecord" -> checker_check_tsrecord(lvl, n)
      [] n.ntype = "ant_tsenum" -> checker_check_tsenum(lvl, n)

checker_check_sqlist(lvl, n) ==
    ForEach(n.elems, LAMBDA elem :
        IF elem.ntype = "ant_tqual" THEN checker_check_tqual(lvl, elem)
        ELSE checker_check_tspec(lvl, elem))

checker_check_dspecs(lvl, n) ==
    ForEach(n.elems, LAMBDA elem :
        IF elem.ntype = "ant_sclass" THEN checker_check_sclass(lvl, elem)
        ELSE IF elem.ntype = "ant_tqual" THEN checker_check_tqual(lvl, elem)
        ELSE IF elem.ntype = "ant_fspec" THEN checker_check_fspec(lvl, elem)
        ELSE checker_check_tspec(lvl, elem))

(* Expressions *)

checker_check_eint(lvl, e) == call_any(lvl, e.tlit)
checker_check_estring(lvl, e) == call_any(lvl, e.tlit)
checker_check_echar(lvl, e) == call_any(lvl, e.tlit)
checker_check_eident(lvl, e) == call_any(lvl, e.tident)

checker_check_eparen(lvl, e) ==
    call_nows_after(lvl, e.tlparen, "Unexpected whitespace after '('.")
    \o checker_check_expr(lvl, e.bexpr)
    \o call_nows_before(lvl, e.trparen,
                                 "Unexpected whitespace before ')'.")

checker_check_ebinop(lvl, e) ==
    checker_check_expr(lvl, e.larg)
    \o call_nbspace_before(lvl, e.top,
           "Single space expected before binary operator.")
    \o call_brkspace_after(lvl, e.top,
           "Whitespace expected after binary operator.")
    \o checker_check_expr(lvl, e.rarg)

checker_check_etcond(lvl, e) ==
    checker_check_expr(lvl, e.cond)
    \o call_nbspace_before(lvl, e.tqmark,
                                    "Single space expected before '?'.")
    \o call_brkspace_after(lvl, e.tqmark,
                                    "Whitespace expected after '?'.")
    \o checker_check_expr(lvl, e.targ)
    \o call_nbspace_before(lvl, e.tcolon,
                                    "Single space expected before ':'.")
    \o call_brkspace_after(lvl, e.tcolon,
                                    "Whitespace expected after ':'.")
    \o checker_check_expr(lvl, e.farg)

checker_check_ecomma(lvl, e) ==
    checker_check_expr(lvl, e.larg)
    \o call_nows_before(lvl, e.tcomma,
                                 "Single space expected before ','.")
    \o call_brkspace_after(lvl, e.tcomma,
                                    "Whitespace expected after ','.")
    \o checker_check_expr(lvl, e.rarg)

checker_check_efuncall(lvl, e) ==
    checker_check_expr(lvl, e.fexpr)
    \o call_nows_after(lvl, e.tlparen,
                                "Unexpected whitespace after '('.")
    \o ForEach(e.args, LAMBDA arg :
           (IF arg.tcomma # NULL
            THEN call_nows_before(lvl, arg.tcomma,
                     "Unexpected whitespace before ','.")
                 \o call_brkspace_after(lvl, arg.tcomma,
                        "Whitespace expected after ','.")
            ELSE <<>>)
           \o checker_check_expr(lvl, arg.expr))
    \o call_nows_before(lvl, e.trparen,
                                 "Unexpected whitespace before ')'.")

checker_check_eindex(lvl, e) ==
    checker_check_expr(lvl, e.bexpr)
    \o call_nows_after(lvl, e.tlbracket,
                                "Unexpected whitespace after '['.")
    \o checker_check_expr(lvl, e.iexpr)
    \o call_nows_before(lvl, e.trbracket,
                                 "Unexpected whitespace before ']'.")

checker_check_ederef(lvl, e) ==
    call_nows_after(lvl, e.tasterisk,
                             "Unexpected whitespace after '*'.")
    \o checker_check_expr(lvl, e.bexpr)

checker_check_eaddr(lvl, e) ==
    call_nows_after(lvl, e.tamper, "Unexpected whitespace after '&'.")
    \o checker_check_expr(lvl, e.bexpr)

checker_check_esizeof(lvl, e) ==
    call_nows_after(lvl, e.tsizeof,
                             "Unexpected whitespace after 'sizeof'.")
    \o checker_check_expr(lvl, e.bexpr)

checker_check_emember(lvl, e) ==
    checker_check_expr(lvl, e.bexpr)
    \o call_nows_before(lvl, e.tperiod,
                                 "Unexpected whitespace before '.'.")
    \o call_nsbrk_after(lvl, e.tperiod,
                                 "Unexpected whitespace after '.'.")
    \o call_any(lvl, e.tmember)

checker_check_eindmember(lvl, e) ==
    checker_check_expr(lvl, e.bexpr)
    \o call_nows_before(lvl, e.tarrow,
                                 "Unexpected whitespace before '->'.")
    \o call_nsbrk_after(lvl, e.tarrow,
                                 "Unexpected whitespace after '->'.")
    \o call_any(lvl, e.tmember)

checker_check_eusign(lvl, e) ==
    call_nows_after(lvl, e.tsign,
                             "Unexpected whitespace after unary sign operator.")
    \o checker_check_expr(lvl, e.bexpr)

checker_check_elnot(lvl, e) ==
    call_nows_after(lvl, e.tlnot, "Unexpected whitespace after '!'.")
    \o checker_check_expr(lvl, e.bexpr)

checker_check_ebnot(lvl, e) ==
    call_nows_after(lvl, e.tbnot, "Unexpected whitespace after '~'.")
    \o checker_check_expr(lvl, e.bexpr)

checker_check_epreadj(lvl, e) ==
    call_nows_after(lvl, e.tadj,
        "Unexpected whitespace after pre-increment/-decrement.")
    \o checker_check_expr(lvl, e.bexpr)

checker_check_epostadj(lvl, e) ==
    checker_check_expr(lvl, e.bexpr)
    \o call_nows_before(lvl, e.tadj,
           "Unexpected whitespace before post-increment/-decrement.")

checker_check_expr(lvl, e) ==
    CASE e.ntype = "ant_eint" -> checker_check_eint(lvl, e)
      [] e.ntype = "ant_echar" -> checker_check_echar(lvl, e)
      [] e.ntype = "ant_estring" -> checker_check_estring(lvl, e)
      [] e.ntype = "ant_eident" -> checker_check_eident(lvl, e)
      [] e.ntype = "ant_eparen" -> checker_check_eparen(lvl, e)
      [] e.ntype = "ant_ebinop" -> checker_check_ebinop(lvl, e)
      [] e.ntype = "ant_etcond" -> checker_check_etcond(lvl, e)
      [] e.ntype = "ant_ecomma" -> checker_check_ecomma(lvl, e)
      [] e.ntype = "ant_efuncall" -> checker_check_efuncall(lvl, e)
      [] e.ntype = "ant_eindex" -> checker_check_eindex(lvl, e)
      [] e.ntype = "ant_ederef" -> checker_check_ederef(lvl, e)
      [] e.ntype = "ant_eaddr" -> checker_check_eaddr(lvl, e)
      [] e.ntype = "ant_esizeof" -> checker_check_esizeof(lvl, e)
      [] e.ntype = "ant_emember" -> checker_check_emember(lvl, e)
      [] e.ntype = "ant_eindmember" -> checker_check_eindmember(lvl, e)
      [] e.ntype = "ant_eusign" -> checker_check_eusign(lvl, e)
      [] e.ntype = "ant_elnot" -> checker_check_elnot(lvl, e)
      [] e.ntype = "ant_ebnot" -> checker_check_ebnot(lvl, e)
      [] e.ntype = "ant_epreadj" -> checker_check_epreadj(lvl, e)
      [] e.ntype = "ant_epostadj" -> checker_check_epostadj(lvl, e)

(* Global declarations and the module *)

checker_check_gdecln(lvl, g) ==
    call_lbegin(lvl, ast_tree_first_tok(g.dspecs),
                         "Declaration must start on a new line.")
    \o checker_check_dspecs(lvl, g.dspecs)
    \o (IF ast_tree_first_tok(g.dlist) # NULL
        THEN call_brkspace_before(lvl, ast_tree_first_tok(g.dlist),
                 "Expected space before declarator.")
        ELSE <<>>)
    \o checker_check_dlist(lvl, g.dlist)
    \o (IF g.body = ANull
        THEN call_nows_before(lvl, g.tscolon,
                                       "Unexpected whitespace before ';'.")
        ELSE call_lbegin(lvl, g.body.topen,
                 "Function opening brace must start on a new line.")
             \o call_scope_nested(lvl)
             \o ForEach(g.body.stmts, LAMBDA s : checker_check_stmt(lvl + 1, s))
             \o call_lbegin(lvl, g.body.tclose,
                    "Function closing brace must start on a new line."))

\* the calls checker_module_check makes on the module's AST
checker_module_check(amod) ==
    call_scope_toplvl
    \o ForEach(amod.decls, LAMBDA decl : checker_check_gdecln(0, decl))

-----------------------------------------------------------------------------
(* The spacing predicates.  Each takes the token sequence ts, the index i  *)
(* of the checked token, scope->indlvl, the message, scope->fix and, when  *)
(* it allocates, the number na of allocations that succeed; it gives the   *)
(* new token sequence, the return code, the diagnostics printed and the    *)
(* numbers of tokens inserted and removed.                                 *)

Res(ts, r, ds, ni, nr) ==
    [toks |-> ts, rc |-> r, diags |-> ds, nins |-> ni, nrem |-> nr]

\* ws prepended before token i as far as na successful allocations go
PrependRes(t0, ts, i, ws, na, ds) ==
    LET k == Min({na, Len(ws)})
        nr == Len(t0) - Len(ts)
    IN  Res(PrependAll(ts, i - nr, SubSeq(ws, 1, k)),
            IF k < Len(ws) THEN ENOMEM ELSE EOK, ds, k, nr)

checker_check_any(ts, i, lvl) == [ts EXCEPT ![i].indlvl = lvl]

\* checker_check_lbegin whose repair inserts the newline without the tabs
lbegin_newline_only(ts, i, lvl, msg, fx, na) ==
    LET t1 == [ts EXCEPT ![i].indlvl = lvl, ![i].lbegin = TRUE]
    IN  IF ~checker_is_tok_lbegin(t1, i)
        THEN IF fx
             THEN PrependRes(t1, checker_remove_ws_before(t1, i), i,
                             <<WsNewline>>, na, <<>>)
             ELSE Res(t1, EOK, <<Diag(t1[i], msg, 0, 0)>>, 0, 0)
        ELSE Res(t1, EOK, <<>>, 0, 0)

checker_check_lbegin(ts, i, lvl, msg, fx, na) ==
    LET t1 == [checker_check_any(ts, i, lvl) EXCEPT ![i].lbegin = TRUE]
    IN  IF ~checker_is_tok_lbegin(t1, i)
        THEN IF fx
             THEN PrependRes(t1, checker_remove_ws_before(t1, i), i,
                             <<WsNewline>> \o Repeat(WsTab, lvl), na, <<>>)
             ELSE Res(t1, EOK, <<Diag(t1[i], msg, 0, 0)>>, 0, 0)
        ELSE Res(t1, EOK, <<>>, 0, 0)

\* checker_check_nows_before that repairs without testing scope->fix
nows_before_always_fix(ts, i, lvl, msg, fx) ==
    LET t1 == [ts EXCEPT ![i].indlvl = lvl]
        t2 == RemoveRange(t1, WsStart(t1, i), i - 1)
    IN  Res(t2, EOK, <<>>, 0, Len(t1) - Len(t2))

checker_check_nows_before(ts, i, lvl, msg, fx) ==
    LET t1 == checker_check_any(ts, i, lvl)
        p == checker_prev_tok(t1, i)
    IN  IF lexer_is_wspace(t1[p].ttype)
        THEN IF fx
             THEN LET t2 == checker_remove_ws_before(t1, i)
                  IN  Res(t2, EOK, <<>>, 0, Len(t1) - Len(t2))
             ELSE Res(t1, EOK, <<Diag(t1[p], msg, 0, 0)>>, 0, 0)
        ELSE Res(t1, EOK, <<>>, 0, 0)

\* checker_check_nows_after that prints the position of the checked token
nows_after_report_at_token(ts, i, lvl, msg, fx) ==
    LET t1 == [ts EXCEPT ![i].indlvl = lvl]
        p == checker_next_tok(t1, i)
    IN  IF lexer_is_wspace(t1[p].ttype)
        THEN IF fx
             THEN LET t2 == checker_remove_ws_after(t1, i)
                  IN  Res(t2, EOK, <<>>, 0, Len(t1) - Len(t2))
             ELSE Res(t1, EOK, <<Diag(t1[i], msg, 0, 0)>>, 0, 0)
        ELSE Res(t1, EOK, <<>>, 0, 0)

checker_check_nows_after(ts, i, lvl, msg, fx) ==
    LET t1 == checker_check_any(ts, i, lvl)
        p == checker_next_tok(t1, i)
    IN  IF lexer_is_wspace(t1[p].ttype)
        THEN IF fx
             THEN LET t2 == checker_remove_ws_after(t1, i)
                  IN  Res(t2, EOK, <<>>, 0, Len(t1) - Len(t2))
             ELSE Res(t1, EOK, <<Diag(t1[p], msg, 0, 0)>>, 0, 0)
        ELSE Res(t1, EOK, <<>>, 0, 0)

checker_check_nsbrk_after(ts, i, lvl, msg, fx) ==
    LET t1 == checker_check_any(ts, i, lvl)
        p == checker_next_tok(t1, i)
    IN  IF lexer_is_wspace(t1[p].ttype) /\ t1[p].ttype # "ltt_newline"
        THEN IF fx
             THEN LET t2 == checker_remove_ws_after(t1, i)
                  IN  Res(t2, EOK, <<>>, 0, Len(t1) - Len(t2))
             ELSE Res(t1, EOK, <<Diag(t1[p], msg, 0, 0)>>, 0, 0)
        ELSE Res(t1, EOK, <<>>, 0, 0)

checker_check_brkspace_before(ts, i, lvl, msg, fx, na) ==
    LET t1 == checker_check_any(ts, i, lvl)
        p == checker_prev_tok(t1, i)
    IN  IF ~lexer_is_wspace(t1[p].ttype)
        THEN IF fx
             THEN PrependRes(t1, t1, i, <<WsSpace>>, na, <<>>)
             ELSE Res(t1, EOK, <<Diag(t1[p], msg, 0, 0)>>, 0, 0)
        ELSE Res(t1, EOK, <<>>, 0, 0)

\* checker_check_brkspace_after that repairs whatever follows the token
brkspace_after_unconditional(ts, i, lvl, msg, fx, na) ==
    LET t1 == [ts EXCEPT ![i].indlvl = lvl]
    IN  IF fx
        THEN IF na >= 1
             THEN Res(checker_append_wspace(t1, i, "ltt_space", <<" ">>),
                      EOK, <<>>, 1, 0)
             ELSE Res(t1, ENOMEM, <<>>, 0, 0)
        ELSE Res(t1, EOK, <<>>, 0, 0)

checker_check_brkspace_after(ts, i, lvl, msg, fx, na) ==
    LET t1 == checker_check_any(ts, i, lvl)
        p == checker_next_tok(t1, i)
    IN  IF ~lexer_is_wspace(t1[p].ttype)
        THEN IF fx
             THEN IF na >= 1
                  THEN Res(checker_append_wspace(t1, i, "ltt_space", <<" ">>),
                           EOK, <<>>, 1, 0)
                  ELSE Res(t1, ENOMEM, <<>>, 0, 0)
             ELSE Res(t1, EOK, <<Diag(t1[p], msg, 0, 0)>>, 0, 0)
        ELSE Res(t1, EOK, <<>>, 0, 0)

checker_check_nbspace_before(ts, i, lvl, msg, fx, na) ==
    LET t1 == checker_check_any(ts, i, lvl)
        p == checker_prev_tok(t1, i)
    IN  IF ~lexer_is_wspace(t1[p].ttype) \/ checker_is_tok_lbegin(t1, i)
        THEN IF fx
             THEN PrependRes(t1, checker_remove_ws_before(t1, i), i,
                             <<WsSpace>>, na, <<>>)
             ELSE Res(t1, EOK, <<Diag(t1[p], msg, 0, 0)>>, 0, 0)
        ELSE Res(t1, EOK, <<>>, 0, 0)

-----------------------------------------------------------------------------
(* The line pass *)

\* number of tokens from index i on whose type is in S, up to the first other
RunLen(ts, i, S) ==
    Min({n \in 0..(Len(ts) - i + 1) :
            i + n > Len(ts) \/ ts[i + n].ttype \notin S})

\* index of the newline or eof token that ends the line holding index i
LineEnd(ts, i) ==
    Min({e \in i..Len(ts) : ts[e].ttype \in {"ltt_eof", "ltt_newline"}})

\* checker_check_line_indent without the test of the continuation spaces
line_indent_any_continuation(ts, i, tabs, spaces, extra, fx, na) ==
    IF lexer_is_wspace(ts[i].ttype) \/ ts[i].ttype = "ltt_comment" \/
       ts[i].ttype = "ltt_dscomment"
    THEN Res(ts, EOK, <<>>, 0, 0)
    ELSE
    LET t1 == IF ts[i].ttype = "ltt_preproc"
              THEN [ts EXCEPT ![i].lbegin = TRUE] ELSE ts
        tok == t1[i]
        c1 == extra # 0
        c2 == tok.lbegin /\ spaces # 0
        c4 == tok.indlvl # tabs
        ds == (IF c1 THEN <<Diag(tok, "Mixing tabs and spaces in indentation.",
                                 0, 0)>> ELSE <<>>)
              \o (IF c2 THEN <<Diag(tok, "Non-continuation line should not have any spaces for indentation (found %u)",
                                    spaces, 0)>> ELSE <<>>)
              \o (IF c4 THEN <<Diag(tok, "Wrong indentation: found %u tabs, should be %u tabs",
                                    tabs, tok.indlvl)>> ELSE <<>>)
    IN  IF fx /\ (c1 \/ c2 \/ c4)
        THEN PrependRes(t1, checker_line_remove_ws_before(t1, i), i,
                        Repeat(WsTab, tok.indlvl)
                        \o (IF ~tok.lbegin
                            THEN Repeat(WsSpace, cont_indent_spaces)
                            ELSE <<>>),
                        na, <<>>)
        ELSE Res(t1, EOK, IF fx THEN <<>> ELSE ds, 0, 0)

checker_check_line_indent(ts, i, tabs, spaces, extra, fx, na) ==
    IF lexer_is_wspace(ts[i].ttype) \/ ts[i].ttype = "ltt_comment" \/
       ts[i].ttype = "ltt_dscomment"
    THEN Res(ts, EOK, <<>>, 0, 0)
    ELSE
    LET t1 == IF ts[i].ttype = "ltt_preproc"
              THEN [ts EXCEPT ![i].lbegin = TRUE] ELSE ts
        tok == t1[i]
        c1 == extra # 0
        c2 == tok.lbegin /\ spaces # 0
        c3 == ~tok.lbegin /\ spaces # cont_indent_spaces
        c4 == tok.indlvl # tabs
        c5 == tok.ttype = "ltt_tab"
        ds == (IF c1 THEN <<Diag(tok, "Mixing tabs and spaces in indentation.",
                                 0, 0)>> ELSE <<>>)
              \o (IF c2 THEN <<Diag(tok, "Non-continuation line should not have any spaces for indentation (found %u)",
                                    spaces, 0)>> ELSE <<>>)
              \o (IF c3 THEN <<Diag(tok, "Continuation is indented by %u spaces (should be %u)",
                                    spaces, cont_indent_spaces)>> ELSE <<>>)
              \o (IF c4 THEN <<Diag(tok, "Wrong indentation: found %u tabs, should be %u tabs",
                                    tabs, tok.indlvl)>> ELSE <<>>)
              \o (IF c5 THEN <<Diag(tok, "Mixing tabs and spaces.", 0, 0)>>
                  ELSE <<>>)
        need_fix == fx /\ (c1 \/ c2 \/ c3 \/ c4 \/ c5)
    IN  IF need_fix
        THEN PrependRes(t1, checker_line_remove_ws_before(t1, i), i,
                        Repeat(WsTab, tok.indlvl)
                        \o (IF ~tok.lbegin
                            THEN Repeat(WsSpace, cont_indent_spaces)
                            ELSE <<>>),
                        na, <<>>)
        ELSE Res(t1, EOK, IF fx THEN <<>> ELSE ds, 0, 0)

\* the end of an iteration that leaves tok on the newline
lines_next_no_skip(ts, e, ds, ni, nr) ==
    [res |-> Res(ts, EOK,
                 ds \o (IF ts[e].bpos.col > 1 + line_length_limit
                        THEN <<Diag(ts[e], "Line too long (%zu characters above %u character limit)",
                                    ts[e].bpos.col - line_length_limit - 1,
                                    line_length_limit)>>
                        ELSE <<>>),
                 ni, nr),
     tok |-> e]

\* checker_module_lines, end of an iteration: the line ends at index e of ts,
\* ds are the diagnostics of the line so far; the line length is checked and
\* tok moves past the newline
LinesNext(ts, e, ds, ni, nr) ==
    [res |-> Res(ts, EOK,
                 ds \o (IF ts[e].bpos.col > 1 + line_length_limit
                        THEN <<Diag(ts[e], "Line too long (%zu characters above %u character limit)",
                                    ts[e].bpos.col - line_length_limit - 1,
                                    line_length_limit)>>
                        ELSE <<>>),
                 ni, nr),
     tok |-> IF ts[e].ttype # "ltt_eof" THEN e + 1 ELSE e]

\* the check for trailing whitespace whose repair removes one token only,
\* the last of the trailing run
lines_trail_last_only(r, i, e, fx) ==
    IF (\E k \in i..(e - 1) : ~lexer_is_wspace(r.toks[k].ttype)) /\
       e > i /\ lexer_is_wspace(r.toks[e - 1].ttype)
    THEN IF fx
         THEN LinesNext(checker_remove_token(r.toks, e - 1), e - 1, r.diags,
                        r.nins, r.nrem + 1)
         ELSE LinesNext(r.toks, e,
                        r.diags \o <<Diag(r.toks[e],
                                          "Whitespace at end of line", 0, 0)>>,
                        r.nins, r.nrem)
    ELSE LinesNext(r.toks, e, r.diags, r.nins, r.nrem)

\* checker_module_lines after the indentation check with result r: the scan
\* from tok (index i) to the end of the line (index e) and the check for
\* trailing whitespace
LinesTrail(r, i, e, fx) ==
    IF (\E k \in i..(e - 1) : ~lexer_is_wspace(r.toks[k].ttype)) /\
       e > i /\ lexer_is_wspace(r.toks[e - 1].ttype)
    THEN IF fx
         THEN LinesNext(checker_line_remove_ws_before(r.toks, e),
                        LineWsStart(r.toks, e), r.diags, r.nins,
                        r.nrem + (e - LineWsStart(r.toks, e)))
         ELSE LinesNext(r.toks, e,
                        r.diags \o <<Diag(r.toks[e],
                                          "Whitespace at end of line", 0, 0)>>,
                        r.nins, r.nrem)
    ELSE LinesNext(r.toks, e, r.diags, r.nins, r.nrem)

\* checker_module_lines after the indentation check of the line whose first
\* token past the indentation is now at index i
LinesScan(r, i, fx) ==
    IF r.rc # EOK THEN [res |-> r, tok |-> i]
    ELSE LinesTrail(r, i, LineEnd(r.toks, i), fx)

\* result r of the indentation check of the line whose token was at index i
LinesIndented(r, i, fx) == LinesScan(r, i + r.nins - r.nrem, fx)

\* the extra blanks and tabs of the indentation start at index j
LinesExtra(ts, j, tabs, spaces, extra, fx, na) ==
    LinesIndented(checker_check_line_indent(ts, j + extra, tabs, spaces, extra,
                                            fx, na),
                  j + extra, fx)

LinesSpaces(ts, c, tabs, spaces, fx, na) ==
    LinesExtra(ts, c + tabs + spaces, tabs, spaces,
               RunLen(ts, c + tabs + spaces, {"ltt_space", "ltt_tab"}), fx, na)

LinesTabs(ts, c, tabs, fx, na) ==
    LinesSpaces(ts, c, tabs, RunLen(ts, c + tabs, {"ltt_space"}), fx, na)

\* One iteration of the loop of checker_module_lines with tok at index c:
\* the result of the line's checks and the index of tok after the iteration
checker_module_lines(ts, c, fx, na) ==
    LinesTabs(ts, c, RunLen(ts, c, {"ltt_tab"}), fx, na)

-----------------------------------------------------------------------------
(* Source files.  A file is a program of the catalog laid out with its     *)
(* canonical spacing, except for one gap between two tokens, which holds   *)
(* any short run of blanks, tabs and newlines or one of the special gaps   *)
(* (comments, a preprocessor line, continuation lines).                    *)

T_int == <<"i", "n", "t">>
T_void == <<"v", "o", "i", "d">>

AModule(decls) == [ntype |-> "ant_module", decls |-> decls]
AGdecln(dspecs, dlist, tscolon, body) ==
    [ntype |-> "ant_gdecln", dspecs |-> dspecs, dlist |-> dlist,
     tscolon |-> tscolon, body |-> body]
ADspecs(elems) == [ntype |-> "ant_dspecs", elems |-> elems]
ATsbasic(tbasic) == [ntype |-> "ant_tsbasic", tbasic |-> tbasic]
ADlist(decls) == [ntype |-> "ant_dlist", decls |-> decls]
ADlistEntry(tcomma, decl) == [tcomma |-> tcomma, decl |-> decl]
ADident(tident) == [ntype |-> "ant_dident", tident |-> tident]
ADnoident == [ntype |-> "ant_dnoident"]
ADfun(bdecl, tlparen, args, trparen) ==
    [ntype |-> "ant_dfun", bdecl |-> bdecl, tlparen |-> tlparen,
     args |-> args, trparen |-> trparen]
ADfunArg(dspecs, decl, tcomma) ==
    [dspecs |-> dspecs, decl |-> decl, tcomma |-> tcomma]
ABlock(braces, topen, stmts, tclose) ==
    [ntype |-> "ant_block", braces |-> braces, topen |-> topen,
     stmts |-> stmts, tclose |-> tclose]
AStexpr(expr, tscolon) ==
    [ntype |-> "ant_stexpr", expr |-> expr, tscolon |-> tscolon]
AEident(tident) == [ntype |-> "ant_eident", tident |-> tident]
AEbinop(larg, top, rarg) ==
    [ntype |-> "ant_ebinop", larg |-> larg, top |-> top, rarg |-> rarg]
AEfuncall(fexpr, tlparen, args, trparen) ==
    [ntype |-> "ant_efuncall", fexpr |-> fexpr, tlparen |-> tlparen,
     args |-> args, trparen |-> trparen]
AEfuncallArg(tcomma, expr) == [tcomma |-> tcomma, expr |-> expr]

\* int x;
ProgDecl ==
    [toks |-> <<T_int, <<"x">>, <<";">>>>,
     gaps |-> <<<<>>, <<" ">>, <<>>, <<"\n">>>>,
     ast |-> AModule(<<
         AGdecln(ADspecs(<<ATsbasic(1)>>),
                 ADlist(<<ADlistEntry(NULL, ADident(2))>>), 3, ANull)>>)]

\* int f(void)
\* {
\*         x = g(y);
\* }
ProgFun ==
    [toks |-> <<T_int, <<"f">>, <<"(">>, T_void, <<")">>, <<"{">>,
                <<"x">>, <<"=">>, <<"g">>, <<"(">>, <<"y">>, <<")">>,
                <<";">>, <<"}">>>>,
     gaps |-> <<<<>>, <<" ">>, <<>>, <<>>, <<>>, <<"\n">>,
                <<"\n", "\t">>, <<" ">>, <<" ">>, <<>>, <<>>, <<>>,
                <<>>, <<"\n">>, <<"\n">>>>,
     ast |-> AModule(<<
         AGdecln(ADspecs(<<ATsbasic(1)>>),
                 ADlist(<<ADlistEntry(NULL,
                     ADfun(ADident(2), 3,
                           <<ADfunArg(ADspecs(<<ATsbasic(4)>>), ADnoident,
                                      NULL)>>, 5))>>),
                 NULL,
                 ABlock(TRUE, 6,
                     <<AStexpr(AEbinop(AEident(7), 8,
                                   AEfuncall(AEident(9), 10,
                                       <<AEfuncallArg(NULL, AEident(11))>>,
                                       12)),
                               13)>>,
                     14))>>)]

Catalog == {ProgDecl, ProgFun}

WsChars == {" ", "\t", "\n"}

\* every run of at most n blanks, tabs and newlines
GapStrings(n) == UNION {[1..k -> WsChars] : k \in 0..n}

SpecialGaps ==
    {<<"/", "/", "c", "\n">>,
     <<" ", "/", "*", "c", "*", "/", " ">>,
     <<"\n", " ", "/", "*", "c", "*", "/", "\n", "\t">>,
     <<"\n", "\t", "\t", "/", "*", "*", "c", "*", "/", "\n", "\t">>,
     <<"\n", "#", "d", "\n">>,
     <<"\n", " ", " ", " ", " ">>,
     <<"\n", "\t", " ", " ", " ", " ">>}

Gaps == GapStrings(MaxGapLen) \cup SpecialGaps

\* the text of program p with gap g replaced by alt
Layout(p, g, alt) ==
    Concat([k \in 1..Len(p.gaps) |->
               (IF k = g THEN alt ELSE p.gaps[k])
               \o (IF k <= Len(p.toks) THEN p.toks[k] ELSE <<>>)])

Inputs ==
    UNION {{Layout(p, g, alt) : g \in 1..Len(p.gaps), alt \in Gaps} :
              p \in Catalog}

(* Source files with statements, labels and record/enum definitions.  The  *)
(* programs are laid out as the checker wants them, except for one gap      *)
(* among those listed in vary.                                              *)

MaxGapLenB == 1

AIf(tif, tlparen, cond, trparen, tbranch, telse, fbranch) ==
    [ntype |-> "ant_if", tif |-> tif, tlparen |-> tlparen, cond |-> cond,
     trparen |-> trparen, tbranch |-> tbranch, telse |-> telse,
     fbranch |-> fbranch]
ASwitch(tswitch, tlparen, sexpr, trparen, body) ==
    [ntype |-> "ant_switch", tswitch |-> tswitch, tlparen |-> tlparen,
     sexpr |-> sexpr, trparen |-> trparen, body |-> body]
AClabel(tcase, cexpr, tcolon) ==
    [ntype |-> "ant_clabel", tcase |-> tcase, cexpr |-> cexpr,
     tcolon |-> tcolon]
AGlabel(tlabel, tcolon) ==
    [ntype |-> "ant_glabel", tlabel |-> tlabel, tcolon |-> tcolon]
ABreak(tbreak, tscolon) ==
    [ntype |-> "ant_break", tbreak |-> tbreak, tscolon |-> tscolon]
AReturn(treturn, arg, tscolon) ==
    [ntype |-> "ant_return", treturn |-> treturn, arg |-> arg,
     tscolon |-> tscolon]
AEint(tlit) == [ntype |-> "ant_eint", tlit |-> tlit]
ASqlist(elems) == [ntype |-> "ant_sqlist", elems |-> elems]
ATsrecord(tsu, tident, tlbrace, elems, trbrace) ==
    [ntype |-> "ant_tsrecord", tsu |-> tsu, tident |-> tident,
     tlbrace |-> tlbrace, elems |-> elems, trbrace |-> trbrace]
ATsrecordElem(sqlist, dlist, tscolon) ==
    [sqlist |-> sqlist, dlist |-> dlist, tscolon |-> tscolon]
ATsenum(tenum, tident, tlbrace, elems, trbrace) ==
    [ntype |-> "ant_tsenum", tenum |-> tenum, tident |-> tident,
     tlbrace |-> tlbrace, elems |-> elems, trbrace |-> trbrace]
ATsenumElem(tident, tequals, tinit, tcomma) ==
    [tident |-> tident, tequals |-> tequals, tinit |-> tinit,
     tcomma |-> tcomma]

\* void f(void) { body }: tokens 1 to 6 and the closing brace at number tclose
AFunVoid(stmts, tclose) ==
    AModule(<<
        AGdecln(ADspecs(<<ATsbasic(1)>>),
                ADlist(<<ADlistEntry(NULL,
                    ADfun(ADident(2), 3,
                          <<ADfunArg(ADspecs(<<ATsbasic(4)>>), ADnoident,
                                     NULL)>>, 5))>>),
                NULL,
                ABlock(TRUE, 6, stmts, tclose))>>)

FunVoidToks == <<T_void, <<"f">>, <<"(">>, T_void, <<")">>, <<"{">>>>
FunVoidGaps == <<<<>>, <<" ">>, <<>>, <<>>, <<>>, <<"\n">>>>

\* void f(void)
\* {
\*         if (x) {
\*                 return y;
\*         }
\* }
ProgIf ==
    [toks |-> FunVoidToks \o
              <<<<"i", "f">>, <<"(">>, <<"x">>, <<")">>, <<"{">>,
                <<"r", "e", "t", "u", "r", "n">>, <<"y">>, <<";">>, <<"}">>,
                <<"}">>>>,
     gaps |-> FunVoidGaps \o
              <<<<"\n", "\t">>, <<" ">>, <<>>, <<>>, <<" ">>,
                <<"\n", "\t", "\t">>, <<" ">>, <<>>, <<"\n", "\t">>,
                <<"\n">>, <<"\n">>>>,
     ast |-> AFunVoid(<<AIf(7, 8, AEident(9), 10,
                            ABlock(TRUE, 11, <<AReturn(12, AEident(13), 14)>>,
                                   15),
                            NULL, ANull)>>, 16)]

\* void f(void)
\* {
\*         if (x)
\*                 return y;
\* }
ProgIfNb ==
    [toks |-> FunVoidToks \o
              <<<<"i", "f">>, <<"(">>, <<"x">>, <<")">>,
                <<"r", "e", "t", "u", "r", "n">>, <<"y">>, <<";">>, <<"}">>>>,
     gaps |-> FunVoidGaps \o
              <<<<"\n", "\t">>, <<" ">>, <<>>, <<>>,
                <<"\n", "\t", "\t">>, <<" ">>, <<>>, <<"\n">>, <<"\n">>>>,
     ast |-> AFunVoid(<<AIf(7, 8, AEident(9), 10,
                            ABlock(FALSE, NULL,
                                   <<AReturn(11, AEident(12), 13)>>, NULL),
                            NULL, ANull)>>, 14)]

\* void f(void)
\* {
\*         switch (x) {
\*         case 1:
\*                 break;
\*         }
\* }
ProgSwitch ==
    [toks |-> FunVoidToks \o
              <<<<"s", "w", "i", "t", "c", "h">>, <<"(">>, <<"x">>, <<")">>,
                <<"{">>, <<"c", "a", "s", "e">>, <<"1">>, <<":">>,
                <<"b", "r", "e", "a", "k">>, <<";">>, <<"}">>, <<"}">>>>,
     gaps |-> FunVoidGaps \o
              <<<<"\n", "\t">>, <<" ">>, <<>>, <<>>, <<" ">>,
                <<"\n", "\t">>, <<" ">>, <<>>, <<"\n", "\t", "\t">>, <<>>,
                <<"\n", "\t">>, <<"\n">>, <<"\n">>>>,
     ast |-> AFunVoid(<<ASwitch(7, 8, AEident(9), 10,
                                ABlock(TRUE, 11,
                                       <<AClabel(12, AEint(13), 14),
                                         ABreak(15, 16)>>, 17))>>, 18)]

\* void f(void)
\* {
\* l:
\*         x = g(y);
\* }
ProgLabel ==
    [toks |-> FunVoidToks \o
              <<<<"l">>, <<":">>, <<"x">>, <<"=">>, <<"g">>, <<"(">>, <<"y">>,
                <<")">>, <<";">>, <<"}">>>>,
     gaps |-> FunVoidGaps \o
              <<<<"\n">>, <<>>, <<"\n", "\t">>, <<" ">>, <<" ">>, <<>>, <<>>,
                <<>>, <<>>, <<"\n">>, <<"\n">>>>,
     ast |-> AFunVoid(<<AGlabel(7, 8),
                        AStexpr(AEbinop(AEident(9), 10,
                                    AEfuncall(AEident(11), 12,
                                        <<AEfuncallArg(NULL, AEident(13))>>,
                                        14)),
                                15)>>, 16)]

\* struct s {
\*         int a;
\* } v;
ProgStruct ==
    [toks |-> <<<<"s", "t", "r", "u", "c", "t">>, <<"s">>, <<"{">>, T_int,
                <<"a">>, <<";">>, <<"}">>, <<"v">>, <<";">>>>,
     gaps |-> <<<<>>, <<" ">>, <<" ">>, <<"\n", "\t">>, <<" ">>, <<>>,
                <<"\n">>, <<" ">>, <<>>, <<"\n">>>>,
     ast |-> AModule(<<
         AGdecln(ADspecs(<<ATsrecord(1, 2, 3,
                     <<ATsrecordElem(ASqlist(<<ATsbasic(4)>>),
                           ADlist(<<ADlistEntry(NULL, ADident(5))>>), 6)>>,
                     7)>>),
                 ADlist(<<ADlistEntry(NULL, ADident(8))>>), 9, ANull)>>)]

\* enum e {
\*         a,
\*         b
\* } v;
ProgEnum ==
    [toks |-> <<<<"e", "n", "u", "m">>, <<"e">>, <<"{">>, <<"a">>, <<",">>,
                <<"b">>, <<"}">>, <<"v">>, <<";">>>>,
     gaps |-> <<<<>>, <<" ">>, <<" ">>, <<"\n", "\t">>, <<>>, <<"\n", "\t">>,
                <<"\n">>, <<" ">>, <<>>, <<"\n">>>>,
     ast |-> AModule(<<
         AGdecln(ADspecs(<<ATsenum(1, 2, 3,
                     <<ATsenumElem(4, NULL, NULL, 5),
                       ATsenumElem(6, NULL, NULL, NULL)>>, 7)>>),
                 ADlist(<<ADlistEntry(NULL, ADident(8))>>), 9, ANull)>>)]

ADo(tdo, body, twhile, tlparen, cond, trparen, tscolon) ==
    [ntype |-> "ant_do", tdo |-> tdo, body |-> body, twhile |-> twhile,
     tlparen |-> tlparen, cond |-> cond, trparen |-> trparen,
     tscolon |-> tscolon]

\* void f(void)
\* {
\*         if (x) {
\*         } else {
\*         }
\* }
ProgIfElse ==
    [toks |-> FunVoidToks \o
              <<<<"i", "f">>, <<"(">>, <<"x">>, <<")">>, <<"{">>, <<"}">>,
                <<"e", "l", "s", "e">>, <<"{">>, <<"}">>, <<"}">>>>,
     gaps |-> FunVoidGaps \o
              <<<<"\n", "\t">>, <<" ">>, <<>>, <<>>, <<" ">>, <<"\n", "\t">>,
                <<" ">>, <<" ">>, <<"\n", "\t">>, <<"\n">>, <<"\n">>>>,
     ast |-> AFunVoid(<<AIf(7, 8, AEident(9), 10,
                            ABlock(TRUE, 11, <<>>, 12), 13,
                            ABlock(TRUE, 14, <<>>, 15))>>, 16)]

\* void f(void)
\* {
\*         if (x)
\*                 y;
\*         else
\*                 y;
\* }
ProgIfElseNb ==
    [toks |-> FunVoidToks \o
              <<<<"i", "f">>, <<"(">>, <<"x">>, <<")">>, <<"y">>, <<";">>,
                <<"e", "l", "s", "e">>, <<"y">>, <<";">>, <<"}">>>>,
     gaps |-> FunVoidGaps \o
              <<<<"\n", "\t">>, <<" ">>, <<>>, <<>>, <<"\n", "\t", "\t">>,
                <<>>, <<"\n", "\t">>, <<"\n", "\t", "\t">>, <<>>, <<"\n">>,
                <<"\n">>>>,
     ast |-> AFunVoid(<<AIf(7, 8, AEident(9), 10,
                            ABlock(FALSE, NULL,
                                   <<AStexpr(AEident(11), 12)>>, NULL), 13,
                            ABlock(FALSE, NULL,
                                   <<AStexpr(AEident(14), 15)>>, NULL))>>,
                      16)]

\* void f(void)
\* {
\*         do {
\*         } while (x);
\* }
ProgDo ==
    [toks |-> FunVoidToks \o
              <<<<"d", "o">>, <<"{">>, <<"}">>, <<"w", "h", "i", "l", "e">>,
                <<"(">>, <<"x">>, <<")">>, <<";">>, <<"}">>>>,
     gaps |-> FunVoidGaps \o
              <<<<"\n", "\t">>, <<" ">>, <<"\n", "\t">>, <<" ">>, <<" ">>,
                <<>>, <<>>, <<>>, <<"\n">>, <<"\n">>>>,
     ast |-> AFunVoid(<<ADo(7, ABlock(TRUE, 8, <<>>, 9), 10, 11, AEident(12),
                            13, 14)>>, 15)]

\* an identifier that makes 'int <identifier>;' exactly line_length_limit
\* bytes long
LongIdent == Repeat("a", line_length_limit - 5)

\* int aaa...a;
ProgLong ==
    [toks |-> <<T_int, LongIdent, <<";">>>>,
     gaps |-> <<<<>>, <<" ">>, <<>>, <<"\n">>>>,
     ast |-> AModule(<<
         AGdecln(ADspecs(<<ATsbasic(1)>>),
                 ADlist(<<ADlistEntry(NULL, ADident(2))>>), 3, ANull)>>)]

ADparen(tlparen, bdecl, trparen) ==
    [ntype |-> "ant_dparen", tlparen |-> tlparen, bdecl |-> bdecl,
     trparen |-> trparen]

\* int (x);
ProgParen ==
    [toks |-> <<T_int, <<"(">>, <<"x">>, <<")">>, <<";">>>>,
     gaps |-> <<<<>>, <<" ">>, <<>>, <<>>, <<>>, <<"\n">>>>,
     ast |-> AModule(<<
         AGdecln(ADspecs(<<ATsbasic(1)>>),
                 ADlist(<<ADlistEntry(NULL, ADparen(2, ADident(3), 4))>>),
                 5, ANull)>>)]

StmtCatalog ==
    {ProgIf, ProgIfNb, ProgSwitch, ProgLabel, ProgStruct, ProgEnum, ProgIfElse,
     ProgIfElseNb, ProgDo, ProgLong, ProgParen}

\* the gaps of each program that are varied
Vary(p) ==
    CASE p = ProgIf -> 7..17
      [] p = ProgIfNb -> 10..13
      [] p = ProgSwitch -> 8..18
      [] p = ProgLabel -> 7..10
      [] p = ProgStruct -> 1..10
      [] p = ProgEnum -> 1..10
      [] p = ProgIfElse -> 13..14
      [] p = ProgIfElseNb -> 13..14
      [] p = ProgDo -> 10..11
      [] p = ProgLong -> 1..4
      [] p = ProgParen -> 3..4

SpecialGapsB ==
    {<<" ", " ">>, <<" ", "\n">>, <<"\n", " ">>, <<"\n", "\t">>,
     <<"\n", "\t", "\t">>, <<"\n", "\t", "\t", "\t">>}

GapsB == GapStrings(MaxGapLenB) \cup SpecialGapsB

\* the text of program p laid out with the gaps gs
LayoutGaps(p, gs) ==
    Concat([k \in 1..Len(gs) |->
               gs[k] \o (IF k <= Len(p.toks) THEN p.toks[k] ELSE <<>>)])

\* the switch statement of ProgSwitch with its case label one tab deeper
\* than 'switch' and the statement under the label two tabs deeper
SwitchCaseDeeper ==
    LayoutGaps(ProgSwitch,
               [ProgSwitch.gaps EXCEPT ![12] = <<"\n", "\t", "\t">>,
                                       ![15] = <<"\n", "\t", "\t", "\t">>])

StmtInputs ==
    UNION {{Layout(p, g, alt) : g \in Vary(p), alt \in GapsB} :
              p \in StmtCatalog}
    \cup {SwitchCaseDeeper}

-----------------------------------------------------------------------------
(* Parser: the module's tokens to an AST *)

\* tokens the parser input skips
parser_is_hidden(ltt) ==
    lexer_is_wspace(ltt) \/ ltt \in {"ltt_comment", "ltt_dscomment",
                                     "ltt_preproc"}

\* the tokens of ts that the grammar sees, without the final eof
GrammarToks(ts) ==
    SelectSeq(ts, LAMBDA t : ~parser_is_hidden(t.ttype) /\ t.ttype # "ltt_eof")

\* The AST of the module and, for every token slot, the checker token that
\* checker_parser_tok_data stored in it; EINVAL on a syntax error.
parser_process_module(ts) ==
    LET g == GrammarToks(ts)
        texts == [k \in 1..Len(g) |-> g[k].text]
        match == {p \in Catalog \cup StmtCatalog : p.toks = texts}
    IN  IF match = {}
        THEN [rc |-> EINVAL, ast |-> ANull, tokdata |-> <<>>]
        ELSE [rc |-> EOK, ast |-> (CHOOSE p \in match : TRUE).ast,
              tokdata |-> [k \in 1..Len(g) |-> g[k].id]]

\* the text written by checker_print
checker_print(ts) ==
    LET n == Min({k \in 1..Len(ts) : ts[k].ttype = "ltt_eof"})
    IN  Concat([k \in 1..(n - 1) |-> ts[k].text])

-----------------------------------------------------------------------------
(* The driver and checker_run *)

Init ==
    /\ src \in Inputs
    /\ file = src
    /\ fixed = FALSE
    /\ clean = FALSE
    /\ phase = "idle"
    /\ fix = FALSE
    /\ toks = <<>>
    /\ plan = <<>>
    /\ tokdata = <<>>
    /\ pc = 0
    /\ cur = 0
    /\ rc = EOK
    /\ diags = <<>>
    /\ nins = 0
    /\ nrem = 0
    /\ mod = "none"
    /\ lost = 0
    /\ lexn = 0
    /\ prevrcs = <<>>
    /\ out = NoCall
    /\ heap = <<>>
    /\ applog = <<>>

\* The driver creates a checker for the file, in check mode or in fix mode.
CheckerCreate ==
    /\ phase = "idle"
    /\ \E fx \in BOOLEAN, ok \in BOOLEAN :
          /\ fix' = fx
          /\ rc' = IF ok THEN EOK ELSE ENOMEM
          /\ phase' = IF ok THEN "created" ELSE "ran"
          /\ mod' = IF ok THEN "NULL" ELSE "none"
    /\ lost' = 0
    /\ lexn' = 0
    /\ prevrcs' = <<>>
    /\ UNCHANGED <<src, file, fixed, clean, toks, plan, tokdata, pc, cur, diags,
                   nins, nrem, avars>>

\* most tokens checker_module_lex is made to append before it fails
MaxLexFail == 1

\* the tokens of ts from number n + 1 on
Rest(ts, n) == SubSeq(ts, n + 1, Len(ts))

\* checker_run, first phase: the tokens the lexer still has to deliver become
\* the module's token sequence.  k = 0: success.  k = 1: checker_module_create
\* fails.  k >= 2: lexer_get_tok or checker_module_append fails on token
\* number k - 1 of this call; the function returns at once, the module and
\* the k - 2 tokens appended to it are left allocated and checker->mod stays
\* NULL.
CheckerModuleLex ==
    /\ phase = "created"
    /\ \E k \in 0..(MaxLexFail + 2) :
          /\ k - 1 <= Len(Rest(LexFile(file), lexn))
          /\ toks' = IF k = 0 THEN Rest(LexFile(file), lexn) ELSE <<>>
          /\ rc' = IF k = 0 THEN EOK ELSE ENOMEM
          /\ phase' = IF k = 0 THEN "lexed" ELSE "ran"
          /\ mod' = IF k = 0 THEN "mod" ELSE "NULL"
          /\ lost' = IF k >= 2 THEN lost + 1 + (k - 2) ELSE lost
          /\ lexn' = IF k = 0 THEN Len(LexFile(file))
                     ELSE IF k = 1 THEN lexn ELSE lexn + (k - 1)
    /\ UNCHANGED <<src, file, fixed, clean, fix, plan, tokdata, pc, cur, diags,
                   nins, nrem, prevrcs, avars>>

\* what follows the last call of the AST walk: the line pass, whose loop is
\* not entered when the first token is eof
LinesEntry(ts) == IF ts[1].ttype = "ltt_eof" THEN "ran" ELSE "lines"

CheckerModuleParse ==
    /\ phase = "lexed"
    /\ \E ok \in BOOLEAN :
          LET r == parser_process_module(toks)
          IN  /\ rc' = IF ok THEN r.rc ELSE ENOMEM
              /\ plan' = IF ok /\ r.rc = EOK THEN checker_module_check(r.ast)
                       ELSE <<>>
              /\ tokdata' = IF ok THEN r.tokdata ELSE <<>>
              /\ phase' = IF ok /\ r.rc = EOK THEN "check" ELSE "ran"
    /\ UNCHANGED <<src, file, fixed, clean, fix, toks, pc, cur, diags, nins,
                   nrem, mvars, avars>>

\* the call of the AST walk that is made next
NextCall == plan[pc + 1]

\* index in toks of the token the next call is about
CallTok == TokIndex(toks, tokdata[NextCall.tok])

AtCall(op) ==
    /\ phase = "check"
    /\ pc < Len(plan)
    /\ NextCall.op = op

\* the effect of a call with result r; an error ends the walk and the run
Return(r) ==
    /\ toks' = r.toks
    /\ diags' = diags \o r.diags
    /\ nins' = nins + r.nins
    /\ nrem' = nrem + r.nrem
    /\ rc' = r.rc
    /\ pc' = pc + 1
    /\ phase' = IF r.rc # EOK THEN "ran"
                ELSE IF pc + 1 < Len(plan) THEN "check"
                ELSE LinesEntry(r.toks)
    /\ cur' = IF r.rc = EOK /\ pc + 1 = Len(plan) /\
                 LinesEntry(r.toks) = "lines"
              THEN 1 ELSE 0
    /\ UNCHANGED <<src, file, fixed, clean, fix, plan, tokdata, mvars, avars>>

ScopeToplvl ==
    /\ AtCall("scope_toplvl")
    /\ \E ok \in BOOLEAN :
          Return(Res(toks, IF ok THEN EOK ELSE ENOMEM, <<>>, 0, 0))

ScopeNested ==
    /\ AtCall("scope_nested")
    /\ \E ok \in BOOLEAN :
          Return(Res(toks, IF ok THEN EOK ELSE ENOMEM, <<>>, 0, 0))

CheckAny ==
    /\ AtCall("any")
    /\ CallTok # 0
    /\ Return(Res(checker_check_any(toks, CallTok, NextCall.indlvl), EOK,
                  <<>>, 0, 0))

CheckLbegin ==
    /\ AtCall("lbegin")
    /\ CallTok # 0
    /\ \E na \in 0..(1 + NextCall.indlvl) :
          Return(checker_check_lbegin(toks, CallTok, NextCall.indlvl,
                                      NextCall.msg, fix, na))

CheckNowsBefore ==
    /\ AtCall("nows_before")
    /\ CallTok # 0
    /\ Return(checker_check_nows_before(toks, CallTok, NextCall.indlvl,
                                        NextCall.msg, fix))

CheckNowsAfter ==
    /\ AtCall("nows_after")
    /\ CallTok # 0
    /\ Return(checker_check_nows_after(toks, CallTok, NextCall.indlvl,
                                       NextCall.msg, fix))

CheckNsbrkAfter ==
    /\ AtCall("nsbrk_after")
    /\ CallTok # 0
    /\ Return(checker_check_nsbrk_after(toks, CallTok, NextCall.indlvl,
                                        NextCall.msg, fix))

CheckBrkspaceBefore ==
    /\ AtCall("brkspace_before")
    /\ CallTok # 0
    /\ \E na \in 0..1 :
          Return(checker_check_brkspace_before(toks, CallTok, NextCall.indlvl,
                                               NextCall.msg, fix, na))

CheckBrkspaceAfter ==
    /\ AtCall("brkspace_after")
    /\ CallTok # 0
    /\ \E na \in 0..1 :
          Return(checker_check_brkspace_after(toks, CallTok, NextCall.indlvl,
                                              NextCall.msg, fix, na))

CheckNbspaceBefore ==
    /\ AtCall("nbspace_before")
    /\ CallTok # 0
    /\ \E na \in 0..1 :
          Return(checker_check_nbspace_before(toks, CallTok, NextCall.indlvl,
                                              NextCall.msg, fix, na))

\* most allocations one indentation repair of the line pass can make
MaxIndentAllocs(ts) ==
    cont_indent_spaces +
    (CHOOSE m \in {ts[k].indlvl : k \in 1..Len(ts)} :
        \A k \in 1..Len(ts) : ts[k].indlvl <= m)

\* checker_run, last phase: one line of the line pass
ModuleLines ==
    /\ phase = "lines"
    /\ \E na \in 0..MaxIndentAllocs(toks) :
          LET it == checker_module_lines(toks, cur, fix, na)
          IN  /\ toks' = it.res.toks
              /\ diags' = diags \o it.res.diags
              /\ nins' = nins + it.res.nins
              /\ nrem' = nrem + it.res.nrem
              /\ rc' = it.res.rc
              /\ cur' = it.tok
              /\ phase' = IF it.res.rc # EOK \/
                             it.res.toks[it.tok].ttype = "ltt_eof"
                          THEN "ran" ELSE "lines"
    /\ UNCHANGED <<src, file, fixed, clean, fix, plan, tokdata, pc, mvars,
                   avars>>

\* After checker_run the driver writes the module back to the file if the
\* run was a successful fix-mode run, and destroys the checker, if there is
\* one.  checker_destroy passes checker->mod to checker_module_destroy, which
\* reads module->ast: with checker->mod NULL this is a null pointer
\* dereference, which ends the process or goes unnoticed.  The tokens linked
\* to the module and the module are freed.
CheckerDestroy ==
    /\ phase = "ran"
    /\ file' = IF rc = EOK /\ fix THEN checker_print(toks) ELSE file
    /\ fixed' = (fixed \/ (rc = EOK /\ fix))
    /\ clean' = (clean \/ (rc = EOK /\ ~fix /\ ~fixed /\ diags = <<>>))
    /\ \E crash \in (IF mod = "NULL" THEN BOOLEAN ELSE {FALSE}) :
          phase' = IF crash THEN "crashed" ELSE "idle"
    /\ mod' = "none"
    /\ lexn' = 0
    /\ prevrcs' = <<>>
    /\ fix' = FALSE
    /\ toks' = <<>>
    /\ plan' = <<>>
    /\ tokdata' = <<>>
    /\ pc' = 0
    /\ cur' = 0
    /\ rc' = EOK
    /\ diags' = <<>>
    /\ nins' = 0
    /\ nrem' = 0
    /\ UNCHANGED <<src, lost, avars>>

\* most calls of checker_run on one checker
MaxRuns == 2

\* A later call of checker_run on the same checker.  With checker->mod set
\* the call does nothing and returns EOK; with checker->mod NULL it goes
\* through the phases again, with what the lexer has not delivered yet.
CheckerRunAgain ==
    /\ phase = "ran"
    /\ mod # "none"
    /\ Len(prevrcs) + 1 < MaxRuns
    /\ prevrcs' = Append(prevrcs, rc)
    /\ rc' = EOK
    /\ phase' = IF mod = "mod" THEN "ran" ELSE "created"
    /\ UNCHANGED <<src, file, fixed, clean, fix, toks, plan, tokdata, pc, cur,
                   diags, nins, nrem, mod, lost, lexn, avars>>

Next ==
    \/ CheckerCreate
    \/ CheckerModuleLex
    \/ CheckerModuleParse
    \/ ScopeToplvl
    \/ ScopeNested
    \/ CheckAny
    \/ CheckLbegin
    \/ CheckNowsBefore
    \/ CheckNowsAfter
    \/ CheckNsbrkAfter
    \/ CheckBrkspaceBefore
    \/ CheckBrkspaceAfter
    \/ CheckNbspaceBefore
    \/ ModuleLines
    \/ CheckerDestroy

Spec == Init /\ [][Next]_vars

-----------------------------------------------------------------------------
(* Properties *)

\* kind and text of every token of ts that is not whitespace, in order
NonWsSig(ts) ==
    LET s == SelectSeq(ts, LAMBDA t : ~lexer_is_wspace(t.ttype))
    IN  [k \in 1..Len(s) |-> <<s[k].ttype, s[k].text>>]

\* the lexer tokens of ts: everything but the marks the checker puts on them
TokSig(ts) ==
    [k \in 1..Len(ts) |->
        <<ts[k].id, ts[k].ttype, ts[k].text, ts[k].bpos, ts[k].epos>>]

\* C1: in fix mode, at every point of the AST pass and of the line pass, the
\* non-whitespace tokens of the module (kinds, texts, order) are those the
\* lexer produced: repairs insert and remove only space, tab and newline tokens.
C1_NonWsTokensPreserved ==
    (fix /\ toks # <<>>) => NonWsSig(toks) = NonWsSig(LexFile(file))

\* a fix-mode run has completed with repairs that inserted and removed tokens
C1_Witness ==
    fix /\ phase = "ran" /\ rc = EOK /\ nins > 0 /\ nrem > 0

\* C2: with fix = false the module's token sequence stays the sequence the
\* lexer produced (tokens, order, texts) all through the run: violations are
\* only reported.
C2_CheckModeKeepsTokens ==
    (~fix /\ toks # <<>>) => TokSig(toks) = TokSig(LexFile(file))

\* a check-mode run has completed and has reported violations
C2_Witness ==
    ~fix /\ phase = "ran" /\ rc = EOK /\ toks # <<>> /\ Len(diags) >= 2

\* C3: when a check-mode run over the input has reported no violation, a
\* fix-mode run over the same input inserts no token and removes no token, and
\* the text it writes back is the input text, token for token.
C3_CleanInputUnchangedByFix ==
    /\ (fix /\ clean /\ ~fixed) =>
          /\ nins = 0 /\ nrem = 0
          /\ toks # <<>> => /\ TokSig(toks) = TokSig(LexFile(src))
                            /\ checker_print(toks) = src
    /\ (clean /\ fixed) => file = src

\* a fix-mode run over an input that a check-mode run found clean has
\* gone through the AST pass and the line pass
C3_Witness ==
    fix /\ clean /\ ~fixed /\ phase = "ran" /\ rc = EOK /\ toks # <<>>

\* what the parser makes of a file: return code, non-whitespace tokens, AST
ParseOf(text) ==
    LET ts == LexFile(text)
        r == parser_process_module(ts)
    IN  [rc |-> r.rc, sig |-> NonWsSig(ts), ast |-> r.ast]

\* C5: the file a successful fix-mode run writes back parses, and parsing it
\* gives the non-whitespace tokens and the AST that parsing the input gave: no
\* repair joins a token onto a line that ends in a line comment or onto a
\* preprocessor line.
C5_FixedFileParsesAlike ==
    (phase = "idle" /\ fixed) => ParseOf(file) = ParseOf(src)

\* C4: a fix-mode run over a file that a fix-mode run has written completes
\* and changes nothing: fixing is idempotent.
C4_FixIdempotent ==
    (fix /\ fixed /\ phase = "ran" /\ rc # ENOMEM) =>
        /\ rc = EOK
        /\ checker_print(toks) = file

\* C4 for the files that still parse after the first fix-mode run
C4_FixIdempotentWhenParsed ==
    (fix /\ fixed /\ phase = "ran" /\ rc = EOK) =>
        /\ checker_print(toks) = file
        /\ nins = 0 /\ nrem = 0

\* C6: in every state of the module's token sequence, also after repairs have
\* inserted whitespace tokens, the begin positions of consecutive tokens are
\* non-decreasing.
C6_PositionsNonDecreasing ==
    \A i \in 1..(Len(toks) - 1) : src_pos_le(toks[i].bpos, toks[i + 1].bpos)

\* C7: during and after a fix-mode run every token slot of the AST refers to
\* a checker token that is still linked in the module's token sequence.
C7_AstTokensLinked ==
    fix => /\ \A k \in 1..Len(tokdata) : TokIndex(toks, tokdata[k]) # 0
           /\ \A k \in 1..Len(plan) :
                 plan[k].tok # NULL => plan[k].tok \in 1..Len(tokdata)

\* a fix-mode run over a parsed module has removed several tokens
C7_Witness ==
    fix /\ phase \in {"lines", "ran"} /\ rc = EOK /\ tokdata # <<>> /\ nrem >= 2

-----------------------------------------------------------------------------
(* The line pass, as seen from outside: a step taken in phase "lines"      *)
(* treats the line that starts at index cur of toks.                       *)

\* leading tab tokens, space tokens after them, further space/tab tokens of
\* the line that starts at index c of ts, and the index of the token after
IndTabs(ts, c) == RunLen(ts, c, {"ltt_tab"})
IndSpaces(ts, c) == RunLen(ts, c + IndTabs(ts, c), {"ltt_space"})
IndExtra(ts, c) ==
    RunLen(ts, c + IndTabs(ts, c) + IndSpaces(ts, c), {"ltt_space", "ltt_tab"})
IndTok(ts, c) == c + IndTabs(ts, c) + IndSpaces(ts, c) + IndExtra(ts, c)

\* the lbegin flag the line pass sees: a preprocessor line always begins a line
IndLbegin(T) == T.lbegin \/ T.ttype = "ltt_preproc"

\* the four violations of line indentation
IndViolation(ts, c) ==
    LET T == ts[IndTok(ts, c)]
    IN  \/ IndExtra(ts, c) > 0
        \/ IndLbegin(T) /\ IndSpaces(ts, c) # 0
        \/ ~IndLbegin(T) /\ IndSpaces(ts, c) # 4
        \/ IndTabs(ts, c) # T.indlvl

\* kinds and texts of the right indentation of a line whose first token is T
IndExpected(T) ==
    Repeat(<<"ltt_tab", <<"\t">>>>, T.indlvl)
    \o (IF IndLbegin(T) THEN <<>> ELSE Repeat(<<"ltt_space", <<" ">>>>, 4))

KindText(ts, a, b) ==
    [k \in 1..(b - a + 1) |-> <<ts[a + k - 1].ttype, ts[a + k - 1].text>>]

IndentMsgs ==
    {"Mixing tabs and spaces in indentation.",
     "Non-continuation line should not have any spaces for indentation (found %u)",
     "Continuation is indented by %u spaces (should be %u)",
     "Wrong indentation: found %u tabs, should be %u tabs",
     "Mixing tabs and spaces."}

\* the step has printed a diagnostic about indentation
IndentReported ==
    \E k \in (Len(diags) + 1)..Len(diags') : diags'[k].msg \in IndentMsgs

\* the tokens before the line are kept, the line's first token T is kept
\* and between them stands exactly the indentation ind
LeadingIs(c, ind) ==
    /\ Len(toks') >= c + Len(ind)
    /\ SubSeq(toks', 1, c - 1) = SubSeq(toks, 1, c - 1)
    /\ KindText(toks', c, c + Len(ind) - 1) = ind
    /\ toks'[c + Len(ind)].id = toks[IndTok(toks, c)].id

\* C8: for a line whose first non-whitespace token T is no comment, the line
\* pass finds a violation exactly when extra > 0, or T.lbegin and spaces # 0,
\* or not T.lbegin and spaces # 4, or tabs # T.indlvl; in fix mode the leading
\* whitespace of such a line becomes T.indlvl tabs, followed by four spaces
\* when T.lbegin is false, and a line without violation keeps its leading
\* whitespace.
C8_LineIndentation ==
    [][(phase = "lines" /\
        toks[IndTok(toks, cur)].ttype \notin
            {"ltt_space", "ltt_tab", "ltt_newline", "ltt_comment",
             "ltt_dscomment"})
       => /\ ~fix => (IndentReported <=> IndViolation(toks, cur))
          /\ (fix /\ rc' = EOK) =>
                /\ ~IndentReported
                /\ LeadingIs(cur,
                             IF IndViolation(toks, cur)
                             THEN IndExpected(toks[IndTok(toks, cur)])
                             ELSE KindText(toks, cur, IndTok(toks, cur) - 1))
                /\ ~IndViolation(toks, cur) =>
                      SubSeq(toks', 1, IndTok(toks, cur) - 1) =
                      SubSeq(toks, 1, IndTok(toks, cur) - 1)]_vars

\* a fix-mode run has completed and the line pass has given a continuation
\* line its four spaces
C8_Witness ==
    /\ fix /\ phase = "ran" /\ rc = EOK
    /\ \E i \in 1..(Len(toks) - 4) :
          /\ \A k \in i..(i + 3) : toks[k].id = 0 /\ toks[k].ttype = "ltt_space"
          /\ ~lexer_is_wspace(toks[i + 4].ttype)
          /\ ~toks[i + 4].lbegin

\* C9: the line pass does not enforce indentation on a line that holds only
\* whitespace, be it ended by a newline or by the end of input, nor on a line
\* whose first non-whitespace token is a comment or a documentation comment:
\* no indentation diagnostic in check mode, and in fix mode the leading
\* whitespace of the line is kept as it is.
C9_BlankAndCommentLinesSkipped ==
    [][(phase = "lines" /\
        toks[IndTok(toks, cur)].ttype \in
            {"ltt_newline", "ltt_eof", "ltt_comment", "ltt_dscomment"})
       => /\ ~IndentReported
          /\ LeadingIs(cur, KindText(toks, cur, IndTok(toks, cur) - 1))]_vars

\* C9 without the blank line that the end of input ends
C9_NewlineEndedAndCommentLinesSkipped ==
    [][(phase = "lines" /\
        toks[IndTok(toks, cur)].ttype \in
            {"ltt_newline", "ltt_comment", "ltt_dscomment"})
       => /\ ~IndentReported
          /\ SubSeq(toks', 1, IndTok(toks, cur)) =
             SubSeq(toks, 1, IndTok(toks, cur))]_vars

\* index of the newline or eof that ends the line starting at c, and of the
\* first token of the run of space/tab tokens right before it
TrailEnd(ts, c) == LineEnd(ts, IndTok(ts, c))
TrailStart(ts, c) == LineWsStart(ts, TrailEnd(ts, c))

\* the line starting at c has a non-whitespace token followed by space/tab
\* tokens up to its end
HasTrailingWs(ts, c) ==
    /\ TrailStart(ts, c) < TrailEnd(ts, c)
    /\ TrailStart(ts, c) > IndTok(ts, c)

\* the last n tokens of ts
Last(ts, n) == SubSeq(ts, Len(ts) - n + 1, Len(ts))

\* C10: in fix mode the line pass removes from a line on which a
\* non-whitespace token is followed by space/tab tokens up to the newline or
\* the end of input exactly that trailing run: from the line's first
\* non-whitespace token on, the tokens are the old ones without the run, and
\* before it stand only the earlier lines and the line's indentation.  A line
\* that holds only whitespace keeps all its tokens under this rule.
C10_TrailingWhitespace ==
    [][(phase = "lines" /\ fix /\ rc' = EOK)
       => LET T == IndTok(toks, cur)
              e == TrailEnd(toks, cur)
              s == IF HasTrailingWs(toks, cur) THEN TrailStart(toks, cur) ELSE e
              kept == SubSeq(toks, T, s - 1) \o SubSeq(toks, e, Len(toks))
          IN  /\ Len(toks') >= cur - 1 + Len(kept)
              /\ TokSig(Last(toks', Len(kept))) = TokSig(kept)
              /\ SubSeq(toks', 1, cur - 1) = SubSeq(toks, 1, cur - 1)
              /\ \A k \in cur..(Len(toks') - Len(kept)) :
                    toks'[k].ttype \in {"ltt_space", "ltt_tab"}
              /\ nrem' - nrem \in {e - s, e - s + (T - cur)}
              /\ toks[T].ttype = "ltt_newline" => toks' = toks]_vars

\* a fix-mode run over a file with whitespace at the end of a line that holds
\* a non-whitespace token has completed, and no line of the module ends in
\* whitespace after a non-whitespace token any more
C10_Witness ==
    /\ fix /\ ~fixed /\ phase = "ran" /\ rc = EOK /\ nrem > 0
    /\ \E c \in 1..(Len(src) - 2) :
          /\ src[c] \notin {" ", "\t", "\n"}
          /\ src[c + 1] \in {" ", "\t"}
          /\ src[c + 2] = "\n"
    /\ \A k \in 2..Len(toks) :
          toks[k].ttype \in {"ltt_newline", "ltt_eof"} =>
              toks[k - 1].ttype \notin {"ltt_space", "ltt_tab"}
                 \/ LineWsStart(toks, k) = 1
                 \/ toks[LineWsStart(toks, k) - 1].ttype = "ltt_newline"

\* C11: in check mode trailing whitespace is reported with the message
\* 'Whitespace at end of line' at the position of the last trailing
\* whitespace token of the line, the space or tab right before the newline
\* or the end of input.
C11_TrailingWsDiagPosition ==
    ~fix =>
        \A k \in 1..Len(diags) :
            diags[k].msg = "Whitespace at end of line" =>
                \E i \in 1..(Len(toks) - 1) :
                    /\ toks[i].ttype \in {"ltt_space", "ltt_tab"}
                    /\ toks[i + 1].ttype \in {"ltt_newline", "ltt_eof"}
                    /\ toks[i].bpos = diags[k].bpos
                    /\ toks[i].epos = diags[k].epos

\* where the diagnostic is: at the newline or end of input that ends the line
C11_TrailingWsDiagAtLineEnd ==
    ~fix =>
        \A k \in 1..Len(diags) :
            diags[k].msg = "Whitespace at end of line" =>
                \E i \in 2..Len(toks) :
                    /\ toks[i].ttype \in {"ltt_newline", "ltt_eof"}
                    /\ toks[i - 1].ttype \in {"ltt_space", "ltt_tab"}
                    /\ toks[i].bpos = diags[k].bpos
                    /\ toks[i].epos = diags[k].epos

-----------------------------------------------------------------------------
(* The same driver over the source files with statements, labels and       *)
(* record/enum definitions                                                 *)

StmtInit ==
    /\ src \in StmtInputs
    /\ file = src
    /\ fixed = FALSE
    /\ clean = FALSE
    /\ phase = "idle"
    /\ fix = FALSE
    /\ toks = <<>>
    /\ plan = <<>>
    /\ tokdata = <<>>
    /\ pc = 0
    /\ cur = 0
    /\ rc = EOK
    /\ diags = <<>>
    /\ nins = 0
    /\ nrem = 0
    /\ mod = "none"
    /\ lost = 0
    /\ lexn = 0
    /\ prevrcs = <<>>
    /\ out = NoCall
    /\ heap = <<>>
    /\ applog = <<>>

StmtSpec == StmtInit /\ [][Next]_vars

-----------------------------------------------------------------------------
(* Properties of the spacing predicates *)

\* index in toks of the token of call number j of the walk
PlanTok(j) == TokIndex(toks, tokdata[plan[j].tok])

\* a diagnostic with message msg has been printed at the position of token t
ReportedAt(msg, t) ==
    \E k \in 1..Len(diags) :
        /\ diags[k].msg = msg
        /\ diags[k].bpos = t.bpos
        /\ diags[k].epos = t.epos

\* the calls made so far that checked a block opening brace standing right
\* after a non-whitespace token
BraceCallsNoSpace ==
    {j \in 1..pc :
        /\ plan[j].op = "nbspace_before"
        /\ plan[j].msg = "Expected single space before block opening brace."
        /\ ~lexer_is_wspace(toks[PlanTok(j) - 1].ttype)}

\* C12: in check mode, when the opening brace of a statement block directly
\* follows the preceding token, 'Expected single space before block opening
\* brace.' is reported at the position of the opening brace itself.
C12_BraceDiagAtBrace ==
    (~fix /\ phase \in {"check", "lines", "ran"}) =>
        \A j \in BraceCallsNoSpace :
            ReportedAt("Expected single space before block opening brace.",
                       toks[PlanTok(j)])

\* where the diagnostic is: at the token before the opening brace
C12_BraceDiagAtPrevTok ==
    (~fix /\ phase \in {"check", "lines", "ran"}) =>
        \A j \in BraceCallsNoSpace :
            ReportedAt("Expected single space before block opening brace.",
                       toks[PlanTok(j) - 1])

\* only space and tab tokens stand between token i of ts and the start of
\* its line
FirstOnLine(ts, i) ==
    \A k \in 1..(i - 1) :
        \/ ts[k].ttype \in {"ltt_space", "ltt_tab", "ltt_newline"}
        \/ (\E m \in (k + 1)..(i - 1) : ts[m].ttype = "ltt_newline")

\* index of the last non-whitespace token of ts before index i (0 if none)
PrevNonWs(ts, i) ==
    LET S == {k \in 1..(i - 1) : ~lexer_is_wspace(ts[k].ttype)}
    IN  IF S = {} THEN 0 ELSE CHOOSE k \in S : \A m \in S : m <= k

\* C13: after checker_check_lbegin on a token T, T.lbegin is true and
\* T.indlvl is scope->indlvl in both modes.  In fix mode, when T was not the
\* first non-whitespace token on its line, T is preceded by exactly
\* scope->indlvl tab tokens, these by one newline token, and the newline stands
\* right after the previous non-whitespace token; when T was first on its
\* line the tokens around it are unchanged.
C13_LbeginRepair ==
    [][(phase = "check" /\ pc < Len(plan) /\ plan[pc + 1].op = "lbegin")
       => LET i == CallTok
              L == NextCall.indlvl
              j == TokIndex(toks', toks[i].id)
              pn == PrevNonWs(toks, i)
          IN  /\ j # 0
              /\ toks'[j] = [toks[i] EXCEPT !.lbegin = TRUE, !.indlvl = L]
              /\ FirstOnLine(toks, i) =>
                    toks' = [toks EXCEPT ![i] = toks'[j]]
              /\ (fix /\ rc' = EOK /\ ~FirstOnLine(toks, i)) =>
                    /\ j = pn + L + 2
                    /\ SubSeq(toks', 1, pn) = SubSeq(toks, 1, pn)
                    /\ toks'[pn + 1].ttype = "ltt_newline"
                    /\ \A k \in (pn + 2)..(j - 1) : toks'[k].ttype = "ltt_tab"
                    /\ SubSeq(toks', j + 1, Len(toks')) =
                       SubSeq(toks, i + 1, Len(toks))]_vars

\* a fix-mode walk has put a token of a nested scope that shared its line
\* with the token before on a line of its own
C13_Witness ==
    /\ fix /\ phase = "check" /\ rc = EOK
    /\ \E i \in 3..Len(toks) :
          /\ toks[i].lbegin /\ toks[i].indlvl >= 1 /\ toks[i].id # 0
          /\ i - toks[i].indlvl - 2 >= 1
          /\ \A k \in (i - toks[i].indlvl)..(i - 1) :
                toks[k].id = 0 /\ toks[k].ttype = "ltt_tab"
          /\ toks[i - toks[i].indlvl - 1].id = 0
          /\ toks[i - toks[i].indlvl - 1].ttype = "ltt_newline"
          /\ ~lexer_is_wspace(toks[i - toks[i].indlvl - 2].ttype)

\* the step is a call of the spacing predicate op
StepOf(op) == phase = "check" /\ pc < Len(plan) /\ plan[pc + 1].op = op

\* the step has printed exactly the message of the call, at whatever position
StepReported ==
    /\ Len(diags') = Len(diags) + 1
    /\ diags'[Len(diags')].msg = NextCall.msg

\* token i of ts is preceded by exactly one space token that follows a
\* non-whitespace token
OneSpaceBefore(ts, i) ==
    /\ i >= 3
    /\ ts[i - 1].ttype = "ltt_space"
    /\ ~lexer_is_wspace(ts[i - 2].ttype)

\* C14: nbspace-before is satisfied only when the token is preceded by exactly
\* one space token that follows a non-whitespace token; every other situation
\* (no whitespace, two or more spaces, a tab, a line break) is reported in
\* check mode and repaired in fix mode so that exactly one space token stands
\* between the previous non-whitespace token and the token.
C14_NbspaceExactlyOneSpace ==
    [][StepOf("nbspace_before")
       => LET i == CallTok
              j == TokIndex(toks', toks[i].id)
          IN  /\ OneSpaceBefore(toks, i) =>
                    (diags' = diags /\ nins' = nins /\ nrem' = nrem)
              /\ (~OneSpaceBefore(toks, i) /\ ~fix) => StepReported
              /\ (fix /\ rc' = EOK) => OneSpaceBefore(toks', j)]_vars

\* what checker_check_nbspace_before takes for a violation: no whitespace
\* token right before the token, or the token first on its line
C14_NbspaceAsCoded ==
    [][StepOf("nbspace_before")
       => LET i == CallTok
              j == TokIndex(toks', toks[i].id)
              bad == ~lexer_is_wspace(toks[i - 1].ttype)
                     \/ FirstOnLine(toks, i)
          IN  /\ ~bad => (diags' = diags /\ nins' = nins /\ nrem' = nrem)
              /\ (bad /\ ~fix) => StepReported
              /\ (bad /\ fix /\ rc' = EOK) => OneSpaceBefore(toks', j)]_vars

\* index of the first token of ts after index i that is no space and no tab
BlankEnd(ts, i) ==
    Min({e \in (i + 1)..(Len(ts) + 1) :
            e = Len(ts) + 1 \/ ts[e].ttype \notin {"ltt_space", "ltt_tab"}})

\* C15: when a token checked with nsbrk-after is followed by space/tab
\* tokens, the fix-mode repair removes only the space and tab tokens between
\* the token and the next newline or non-whitespace token; a newline after
\* that run, and everything after it, stays in the sequence.
C15_NsbrkAfterKeepsLineBreaks ==
    [][(StepOf("nsbrk_after") /\ fix /\
        toks[CallTok + 1].ttype \in {"ltt_space", "ltt_tab"})
       => LET i == CallTok
              e == BlankEnd(toks, i)
          IN  /\ SubSeq(toks', 1, i - 1) = SubSeq(toks, 1, i - 1)
              /\ toks'[i].id = toks[i].id
              /\ SubSeq(toks', i + 1, Len(toks')) =
                 SubSeq(toks, e, Len(toks))]_vars

\* what the repair removes: every whitespace token after the token, newlines
\* too, up to the next non-whitespace token
C15_NsbrkAfterAsCoded ==
    [][(StepOf("nsbrk_after") /\ fix /\
        toks[CallTok + 1].ttype \in {"ltt_space", "ltt_tab"})
       => LET i == CallTok
          IN  /\ toks'[i].id = toks[i].id
              /\ SubSeq(toks', i + 1, Len(toks')) =
                 SubSeq(toks, WsEnd(toks, i), Len(toks))]_vars

\* the step has printed the message of the call at the position of token t
StepReportedAt(t) ==
    /\ StepReported
    /\ diags'[Len(diags')].bpos = t.bpos
    /\ diags'[Len(diags')].epos = t.epos

\* C16: nows-before / nows-after find a violation exactly when the token right
\* before / after the checked token is a whitespace token; in check mode it is
\* reported at the position of that whitespace token; in fix mode the whole
\* run of whitespace tokens on that side, up to the nearest non-whitespace
\* token, is removed and the tokens on the other side are unchanged.
C16_NowsBeforeAfter ==
    [][/\ StepOf("nows_before") =>
            LET i == CallTok
                s == WsStart(toks, i)
            IN  /\ ~lexer_is_wspace(toks[i - 1].ttype) =>
                      (diags' = diags /\ nins' = nins /\ nrem' = nrem)
                /\ (lexer_is_wspace(toks[i - 1].ttype) /\ ~fix) =>
                      StepReportedAt(toks[i - 1])
                /\ fix => /\ diags' = diags
                          /\ SubSeq(toks', 1, s - 1) = SubSeq(toks, 1, s - 1)
                          /\ Len(toks') = Len(toks) - (i - s)
                          /\ toks'[s].id = toks[i].id
                          /\ s > 1 => ~lexer_is_wspace(toks'[s - 1].ttype)
                          /\ SubSeq(toks', s + 1, Len(toks')) =
                             SubSeq(toks, i + 1, Len(toks))
       /\ StepOf("nows_after") =>
            LET i == CallTok
                e == WsEnd(toks, i)
            IN  /\ ~lexer_is_wspace(toks[i + 1].ttype) =>
                      (diags' = diags /\ nins' = nins /\ nrem' = nrem)
                /\ (lexer_is_wspace(toks[i + 1].ttype) /\ ~fix) =>
                      StepReportedAt(toks[i + 1])
                /\ fix => /\ diags' = diags
                          /\ SubSeq(toks', 1, i - 1) = SubSeq(toks, 1, i - 1)
                          /\ toks'[i].id = toks[i].id
                          /\ ~lexer_is_wspace(toks'[i + 1].ttype)
                          /\ SubSeq(toks', i + 1, Len(toks')) =
                             SubSeq(toks, e, Len(toks))]_vars

\* a check-mode walk has reported the whitespace token that stands right
\* after a '('
C16_Witness ==
    /\ ~fix /\ phase \in {"check", "lines", "ran"}
    /\ \E k \in 1..Len(diags), i \in 2..Len(toks) :
          /\ diags[k].msg = "Unexpected whitespace after '('."
          /\ lexer_is_wspace(toks[i].ttype)
          /\ toks[i - 1].ttype = "ltt_lparen"
          /\ diags[k].bpos = toks[i].bpos

-----------------------------------------------------------------------------
(* Properties of the indentation levels *)

\* number of tokens of type ltt among the first n tokens of ts
CountType(ts, n, ltt) == Cardinality({k \in 1..n : ts[k].ttype = ltt})

\* number of braced constructs that enclose token i of ts; a brace is
\* enclosed by the constructs around its own
BraceDepth(ts, i) ==
    CountType(ts, i - 1, "ltt_lbrace") - CountType(ts, i - 1, "ltt_rbrace")
    - (IF ts[i].ttype = "ltt_rbrace" THEN 1 ELSE 0)

\* the calls of the walk on the leading token of a case or goto label
LabelHeadCalls ==
    {j \in 1..Len(plan) :
        plan[j].msg \in {"Case label must start on a new line.",
                         "Label must start on a new line."}}

\* the calls of the walk that visit a token
TokCalls == {j \in 1..Len(plan) : plan[j].tok # NULL}

\* the walk is over and has succeeded
WalkDone == phase \in {"lines", "ran"} /\ rc = EOK /\ pc = Len(plan) /\ pc > 0

\* C17: after the AST walk the indlvl of every visited token is the number of
\* braced constructs that enclose it (function body, braced block,
\* struct/union/enum definition), one less for the leading token of a case
\* label or goto label; the unbraced body of an if/while/do/for has the level
\* of the statements of the enclosing braced block.
C17_IndlvlIsBraceDepth ==
    WalkDone =>
        \A j \in TokCalls :
            toks[PlanTok(j)].indlvl =
                BraceDepth(toks, PlanTok(j))
                - (IF j \in LabelHeadCalls THEN 1 ELSE 0)

\* the statement tokens of an unbraced body: the calls between the ')' of an
\* if without braces and the end of its branch (in ProgIfNb the return
\* statement, in ProgIfElseNb the two expression statements)
InUnbracedBody(j) ==
    LET texts == [k \in 1..Len(GrammarToks(toks)) |->
                     GrammarToks(toks)[k].text]
    IN  /\ GrammarToks(toks) # <<>>
        /\ \/ texts = ProgIfNb.toks /\ plan[j].tok \in 11..13
           \/ texts = ProgIfElseNb.toks /\ plan[j].tok \in {11, 12, 14, 15}

\* what the walk assigns: the unbraced body is a scope of its own, one level
\* deeper than the enclosing braced block
C17_IndlvlAsCoded ==
    WalkDone =>
        \A j \in TokCalls :
            toks[PlanTok(j)].indlvl =
                BraceDepth(toks, PlanTok(j))
                - (IF j \in LabelHeadCalls THEN 1 ELSE 0)
                + (IF InUnbracedBody(j) THEN 1 ELSE 0)

\* C18: a switch statement whose case labels are indented one tab deeper than
\* 'switch' and whose statements under a label are indented two tabs deeper
\* than 'switch' passes the check with no diagnostic.
C18_CaseOneTabDeeperPasses ==
    (src = SwitchCaseDeeper /\ ~fix /\ phase = "ran" /\ rc = EOK) =>
        diags = <<>>

\* the layout that passes: case labels at the level of 'switch', the
\* statements under a label one tab deeper
C18_CaseAtSwitchLevelPasses ==
    (src = LayoutGaps(ProgSwitch, ProgSwitch.gaps) /\ ~fix /\ phase = "ran"
     /\ rc = EOK) => diags = <<>>

\* scope->indlvl of the scope in which call j of the walk is made: the level
\* of the last scope allocated before it
ScopeLevelAt(j) ==
    LET S == {s \in 1..(j - 1) : plan[s].op \in {"scope_nested",
                                                 "scope_toplvl"}}
    IN  plan[CHOOSE s \in S : \A m \in S : m <= s].indlvl

\* the calls that checker_check_clabel / checker_check_glabel make after the
\* one on the leading token j, and the first call made after the function
\* has returned: all calls after j up to the next call with lbegin
LabelRest(j) ==
    {k \in (j + 1)..Len(plan) :
        \A m \in (j + 1)..(k - 1) : plan[m].op # "lbegin"}

ProgOf(ts) ==
    LET g == GrammarToks(ts)
        texts == [k \in 1..Len(g) |-> g[k].text]
    IN  CHOOSE p \in Catalog \cup StmtCatalog : p.toks = texts

\* first token slot of a statement
StmtFirstTok(s) ==
    CASE s.ntype = "ant_if" -> s.tif
      [] s.ntype = "ant_switch" -> s.tswitch
      [] s.ntype = "ant_clabel" -> s.tcase
      [] s.ntype = "ant_glabel" -> s.tlabel
      [] s.ntype = "ant_return" -> s.treturn
      [] s.ntype = "ant_break" -> s.tbreak
      [] s.ntype = "ant_do" -> s.tdo
      [] s.ntype = "ant_stexpr" -> ast_expr_first_tok(s.expr)

IsLabel(s) == s.ntype \in {"ant_clabel", "ant_glabel"}

\* the record and enum definitions among the declaration specifiers of g
DefnSpecs(g) ==
    {g.dspecs.elems[k] : k \in {m \in 1..Len(g.dspecs.elems) :
        g.dspecs.elems[m].ntype \in {"ant_tsrecord", "ant_tsenum"}}}

\* token slots of the braces that C20 puts at the outer level: the closing
\* brace of a function body or record/enum definition, the opening brace of a
\* function body
OuterBraces(g) ==
    (IF g.body # ANull THEN {g.body.topen, g.body.tclose} ELSE {})
    \cup {d.trbrace : d \in DefnSpecs(g)}

\* token slots of the first tokens of member declarations and enumerators
MemberHeads(g) ==
    UNION {{IF d.ntype = "ant_tsrecord"
            THEN ast_tree_first_tok(d.elems[k].sqlist)
            ELSE d.elems[k].tident : k \in 1..Len(d.elems)} :
              d \in DefnSpecs(g)}

\* the statements of the function body of g
BodyStmts(g) ==
    IF g.body = ANull THEN {}
    ELSE {g.body.stmts[k] : k \in 1..Len(g.body.stmts)}

\* token n of the grammar is marked lbegin with level lvl
Marked(n, lvl) ==
    LET t == toks[TokIndex(toks, tokdata[n])]
    IN  t.lbegin /\ t.indlvl = lvl

\* For a function definition and a struct/union/enum definition at level 0:
\* the closing brace and the function's opening brace are lbegin at level 0,
\* the first token of every member declaration, enumerator and statement of
\* the function body is lbegin at level 1.
C20_DefinitionMarksAllStatements ==
    WalkDone =>
        LET g == ProgOf(toks).ast.decls[1]
        IN  /\ \A n \in OuterBraces(g) : Marked(n, 0)
            /\ \A n \in MemberHeads(g) : Marked(n, 1)
            /\ \A s \in BodyStmts(g) : Marked(StmtFirstTok(s), 1)

\* C20: for a function definition and for a struct/union/enum definition
\* checked at level L = 0, the closing brace and the function's opening brace
\* are marked lbegin with indlvl L, and the first token of every member
\* declaration, of every enumerator and of every statement of the function
\* body that is no case or goto label is marked lbegin with indlvl L + 1; the
\* leading token of a label in the function body is marked lbegin with
\* indlvl L.
C20_DefinitionMarks ==
    WalkDone =>
        LET g == ProgOf(toks).ast.decls[1]
        IN  /\ \A n \in OuterBraces(g) : Marked(n, 0)
            /\ \A n \in MemberHeads(g) : Marked(n, 1)
            /\ \A s \in BodyStmts(g) :
                  Marked(StmtFirstTok(s), IF IsLabel(s) THEN 0 ELSE 1)

\* the walk over an enum definition is over and has put an enumerator on a
\* line of its own
C20_Witness ==
    /\ WalkDone /\ fix /\ nins > 0
    /\ ProgOf(toks) = ProgEnum
    /\ \E i \in 2..Len(toks) :
          /\ toks[i].ttype = "ltt_ident" /\ toks[i].lbegin
          /\ toks[i].indlvl = 1
          /\ toks[i - 1].id = 0

-----------------------------------------------------------------------------
(* Placement of 'else' and of the 'while' of a do loop *)

\* the calls of the walk on an 'else' or on the 'while' of a do loop
KeywordPlacementMsgs ==
    {"There must be single space between '}' and 'else'.",
     "'else' must begin on a new line.",
     "There must be single space between '}' and 'while'.",
     "'while' must begin on a new line."}

\* the if/else of S5 inside a function body: both branches unbraced, 'else'
\* on a line of its own at the level of 'if'
ElseOnOwnLine == LayoutGaps(ProgIfElseNb, ProgIfElseNb.gaps)

\* C21: when the preceding branch or body is an unbraced block, 'else' (the
\* 'while' of a do loop) is checked as lbegin at the level of the statement:
\* it is reported in check mode exactly when it is not the first
\* non-whitespace token on its line.  When it is a braced block the keyword is
\* checked as nbspace-before: it is reported in check mode exactly when it
\* does not follow the closing brace on the same line after a single space.
\* An if/else with two unbraced branches whose 'else' starts its own line at
\* the level of 'if' passes the check.
C21_ElseWhilePlacement ==
    [][/\ (phase = "check" /\ pc < Len(plan)
           /\ NextCall.msg \in KeywordPlacementMsgs)
          => LET i == CallTok
                 braced == toks[PrevNonWs(toks, i)].ttype = "ltt_rbrace"
             IN  /\ NextCall.op = IF braced THEN "nbspace_before"
                                  ELSE "lbegin"
                 /\ NextCall.indlvl = BraceDepth(toks, i)
                 /\ (~braced /\ ~fix) =>
                        (StepReported <=> ~FirstOnLine(toks, i))
                 /\ (braced /\ ~fix) =>
                        (StepReported <=> ~OneSpaceBefore(toks, i))
       /\ (src = ElseOnOwnLine /\ ~fix /\ phase = "ran" /\ rc = EOK)
          => diags = <<>>]_vars

\* the same with the braced case as checker_check_nbspace_before decides it:
\* reported exactly when no whitespace token stands right before the keyword
\* or the keyword is first on its line
C21_ElseWhilePlacementAsCoded ==
    [][/\ (phase = "check" /\ pc < Len(plan)
           /\ NextCall.msg \in KeywordPlacementMsgs)
          => LET i == CallTok
                 braced == toks[PrevNonWs(toks, i)].ttype = "ltt_rbrace"
             IN  /\ NextCall.op = IF braced THEN "nbspace_before"
                                  ELSE "lbegin"
                 /\ NextCall.indlvl = BraceDepth(toks, i)
                 /\ (~braced /\ ~fix) =>
                        (StepReported <=> ~FirstOnLine(toks, i))
                 /\ (braced /\ ~fix) =>
                        (StepReported <=>
                            (~lexer_is_wspace(toks[i - 1].ttype)
                             \/ FirstOnLine(toks, i)))
       /\ (src = ElseOnOwnLine /\ ~fix /\ phase = "ran" /\ rc = EOK)
          => diags = <<>>]_vars

-----------------------------------------------------------------------------
(* Line length *)

\* index of the newline or eof token that ended the line checked by the
\* iteration of the line pass that has left tok at index c of ts
CheckedLineEnd(ts, c) ==
    IF c > 1 /\ ts[c - 1].ttype = "ltt_newline" THEN c - 1 ELSE c

\* number of bytes of the line of ts that ends at index e, without its newline
LineBytes(ts, e) ==
    LET S == {k \in 1..(e - 1) : ts[k].ttype = "ltt_newline"}
        s == IF S = {} THEN 1 ELSE (CHOOSE k \in S : \A m \in S : m <= k) + 1
    IN  Len(Concat([k \in 1..(e - s) |-> ts[s + k - 1].text]))

\* the 'Line too long' diagnostics among the diagnostics from number n on
LongDiags(ds, n) ==
    {k \in n..Len(ds) :
        ds[k].msg = "Line too long (%zu characters above %u character limit)"}

\* C22: in check mode and in fix mode an iteration of the line pass reports
\* 'Line too long' exactly when the line, as it stands in the token sequence,
\* has a byte beyond column line_length_limit before its newline or the end
\* of input, and the excess reported is the column of its last byte minus
\* line_length_limit.
C22_LineTooLong ==
    [][(phase = "lines" /\ rc' = EOK)
       => LET e == CheckedLineEnd(toks', cur')
              n == LineBytes(toks', e)
              D == LongDiags(diags', Len(diags) + 1)
          IN  /\ (D # {}) <=> (n > line_length_limit)
              /\ \A k \in D : /\ diags'[k].a = n - line_length_limit
                              /\ diags'[k].b = line_length_limit]_vars

\* what is reported: the column at which the lexer found the newline or eof
\* token, whatever the repairs have made of the line since
C22_LineTooLongAsLexed ==
    [][(phase = "lines" /\ rc' = EOK)
       => LET e == CheckedLineEnd(toks', cur')
              D == LongDiags(diags', Len(diags) + 1)
          IN  /\ (D # {}) <=> (toks'[e].bpos.col > 1 + line_length_limit)
              /\ \A k \in D :
                    /\ diags'[k].a = toks'[e].bpos.col - line_length_limit - 1
                    /\ diags'[k].b = line_length_limit
              /\ ~fix => (toks'[e].bpos.col = LineBytes(toks', e) + 1)]_vars

-----------------------------------------------------------------------------
(* Order of the AST walk *)

\* C23: the walk checks the tokens in their source order: no call is about a
\* token that precedes the token of an earlier call, since the token slots of
\* a node and its children are visited depth-first, left to right; the
\* sequence of calls is a function of the AST alone, so it is the same on
\* every run over the same input.
C23_WalkInSourceOrder ==
    /\ \A j, k \in TokCalls : j < k => plan[j].tok <= plan[k].tok
    /\ \A j, k \in TokCalls :
          (j < k /\ k <= pc /\ PlanTok(j) # 0 /\ PlanTok(k) # 0)
              => PlanTok(j) <= PlanTok(k)
    /\ phase \in {"check", "lines"} =>
          plan = checker_module_check(parser_process_module(toks).ast)

-----------------------------------------------------------------------------
(* src_pos_print_range on its own: any range of positions within the       *)
(* bounds, over a stream on which the write succeeds or fails              *)

MaxPosLine == 3
MaxPosCol == 12

Positions == {Pos(l, c) : l \in 1..MaxPosLine, c \in 1..MaxPosCol}

PosInit ==
    /\ src = <<>>
    /\ file = <<>>
    /\ fixed = FALSE
    /\ clean = FALSE
    /\ phase = "idle"
    /\ fix = FALSE
    /\ toks = <<>>
    /\ plan = <<>>
    /\ tokdata = <<>>
    /\ pc = 0
    /\ cur = 0
    /\ rc = EOK
    /\ diags = <<>>
    /\ nins = 0
    /\ nrem = 0
    /\ mod = "none"
    /\ lost = 0
    /\ lexn = 0
    /\ prevrcs = <<>>
    /\ out = NoCall
    /\ heap = <<>>
    /\ applog = <<>>

SrcPosPrintRange ==
    /\ \E bpos \in Positions, epos \in Positions, wr \in BOOLEAN :
          /\ src_pos_le(bpos, epos)
          /\ out' = [called |-> TRUE, bpos |-> bpos, epos |-> epos, wr |-> wr,
                     res |-> src_pos_print_range(bpos, epos, wr)]
    /\ UNCHANGED <<cvars, heap, applog>>

PosNext == SrcPosPrintRange

PosSpec == PosInit /\ [][PosNext]_vars

\* the text 'file:LINE:COL' of a position
PosText(p) ==
    <<"f", "i", "l", "e", ":">> \o FormatZu(p.line) \o <<":">>
    \o FormatZu(p.col)

\* the text 'LINE:COL' of a position
LineColText(p) == FormatZu(p.line) \o <<":">> \o FormatZu(p.col)

\* C24: src_pos_print_range prints 'file:LINE:COL' when the begin and end
\* positions are equal and 'file:LINE:COL-LINE:COL' for every range whose end
\* differs from its begin; it returns EOK when the write succeeds and EIO
\* when it fails.
C24_TwoForms ==
    out.called =>
        /\ out.res.rc = IF out.wr THEN EOK ELSE EIO
        /\ (out.wr /\ out.bpos = out.epos) => out.res.text = PosText(out.bpos)
        /\ (out.wr /\ out.bpos # out.epos) =>
              out.res.text = PosText(out.bpos) \o <<"-">>
                             \o LineColText(out.epos)

\* the forms that are printed: a range within one line is printed as
\* 'file:LINE:COL-COL'
C24_ThreeForms ==
    out.called =>
        /\ out.res.rc = IF out.wr THEN EOK ELSE EIO
        /\ (out.wr /\ out.bpos = out.epos) => out.res.text = PosText(out.bpos)
        /\ (out.wr /\ out.bpos # out.epos /\ out.bpos.line = out.epos.line) =>
              out.res.text = PosText(out.bpos) \o <<"-">>
                             \o FormatZu(out.epos.col)
        /\ (out.wr /\ out.bpos.line # out.epos.line) =>
              out.res.text = PosText(out.bpos) \o <<"-">>
                             \o LineColText(out.epos)

-----------------------------------------------------------------------------
(* Release of the checker's memory *)

\* C25: after checker_create has succeeded, whatever happens next,
\* checker_destroy completes without dereferencing a missing module, and
\* afterwards no token, token text or module allocated for the checker
\* remains allocated.
C25_DestroyReleasesAll ==
    /\ phase # "crashed"
    /\ phase = "idle" => lost = 0

\* what holds: when lexing has succeeded, so that checker->mod is set,
\* checker_destroy completes and leaves nothing allocated
C25_ReleasedAfterLex ==
    [][(phase = "ran" /\ mod = "mod" /\ prevrcs = <<>>)
       => (phase' = "idle" /\ lost' = 0)]_vars

-----------------------------------------------------------------------------
(* A client that calls checker_run more than once on a checker.  The       *)
(* source files are the programs of the catalogs in their canonical layout *)
(* and files that do not parse.                                            *)

LifeInputs ==
    {LayoutGaps(p, p.gaps) : p \in Catalog \cup StmtCatalog}
    \cup {Layout(ProgDecl, 2, <<>>), Layout(ProgFun, 7, <<" ">>)}

LifeInit ==
    /\ src \in LifeInputs
    /\ file = src
    /\ fixed = FALSE
    /\ clean = FALSE
    /\ phase = "idle"
    /\ fix = FALSE
    /\ toks = <<>>
    /\ plan = <<>>
    /\ tokdata = <<>>
    /\ pc = 0
    /\ cur = 0
    /\ rc = EOK
    /\ diags = <<>>
    /\ nins = 0
    /\ nrem = 0
    /\ mod = "none"
    /\ lost = 0
    /\ lexn = 0
    /\ prevrcs = <<>>
    /\ out = NoCall
    /\ heap = <<>>
    /\ applog = <<>>

LifeNext ==
    \/ Next
    \/ CheckerRunAgain

LifeSpec == LifeInit /\ [][LifeNext]_vars

\* the phases of checker_run in their order
PhaseRank(ph) ==
    CASE ph = "created" -> 1
      [] ph = "lexed" -> 2
      [] ph = "check" -> 3
      [] ph = "lines" -> 4
      [] ph = "ran" -> 5
      [] OTHER -> 0

\* the current call has completed lexing, parsing, the AST check and the
\* line pass on the checker's module
AllPhasesDone ==
    /\ mod = "mod"
    /\ plan # <<>>
    /\ pc = Len(plan)
    /\ toks # <<>>
    /\ (cur = 0 => toks[1].ttype = "ltt_eof")
    /\ (cur # 0 => toks[cur].ttype = "ltt_eof")

\* C29: checker_run runs lexing, parsing, the AST check and the line pass in
\* this order; a phase that fails prevents the later phases and its error is
\* returned; checker_run returns EOK only if all four phases have completed
\* for the checker's module, on the first call and on every later call: a
\* call after a failed call does not return EOK.
C29_RunPhases ==
    [][/\ (phase \in {"created", "lexed", "check", "lines"})
          => /\ PhaseRank(phase') >= PhaseRank(phase)
             /\ PhaseRank(phase') <= PhaseRank(phase) + 1 \/ phase' = "ran"
             /\ rc' # EOK => phase' = "ran"
       /\ (phase' = "ran" /\ rc' = EOK /\ mod' # "none")
          => /\ AllPhasesDone'
             /\ \A k \in 1..Len(prevrcs') : prevrcs'[k] = EOK]_vars

\* the same for the first call on a checker only
C29_FirstRunPhases ==
    [][/\ (phase \in {"created", "lexed", "check", "lines"})
          => /\ PhaseRank(phase') >= PhaseRank(phase)
             /\ PhaseRank(phase') <= PhaseRank(phase) + 1 \/ phase' = "ran"
             /\ rc' # EOK => phase' = "ran"
       /\ (phase' = "ran" /\ rc' = EOK /\ mod' # "none" /\ prevrcs' = <<>>)
          => AllPhasesDone']_vars

-----------------------------------------------------------------------------
(* The AST containers (ast.c) exercised on their own, as test/ast.c does:   *)
(* nodes are created, appended to containers, enumerated and destroyed.     *)
(* An address is an index of heap.  A pointer to a link_t is written n > 0  *)
(* for the link of object n, -c for the head of container c's list, NULL    *)
(* for the zero calloc leaves behind.                                       *)

MaxNodes == 3

\* containers whose children are AST nodes linked through node.llist
NodeContainers == {"ant_module", "ant_block", "ant_sqlist", "ant_dspecs"}

\* containers whose children are elements allocated by the append function
ElemContainers == {"ant_dlist", "ant_dfun", "ant_tsrecord", "ant_tsenum"}

\* ast_dlist_entry_t, ast_dfun_arg_t, ast_tsrecord_elem_t, ast_tsenum_elem_t
ElemType(t) ==
    CASE t = "ant_dlist" -> "dlist_entry"
      [] t = "ant_dfun" -> "dfun_arg"
      [] t = "ant_tsrecord" -> "tsrecord_elem"
      [] t = "ant_tsenum" -> "tsenum_elem"

ElemTypes == {ElemType(t) : t \in ElemContainers}

\* the node types ast_<type>_create is modelled for
CreateTypes == NodeContainers \cup ElemContainers \cup {"ant_return"}

\* the result of an aborted call (failed assertion, NULL dereference): no
\* address and no link
Abort == -1000

\* calloc(1, sizeof(...)): a zeroed object
AstObj(t) ==
    [ntype |-> t, live |-> TRUE, lnode |-> NULL, prev |-> NULL, next |-> NULL,
     hprev |-> NULL, hnext |-> NULL, kids |-> <<>>]

\* adt/list.h: an empty list's head points to itself
list_initialize(h, c) == [h EXCEPT ![c].hprev = -c, ![c].hnext = -c]

\* adt/list.h: link n is put before the head of c's list, i.e. last
list_append(h, n, c) ==
    LET last == h[c].hprev
        h1 == [h EXCEPT ![n].prev = last, ![n].next = -c]
        h2 == IF last = -c THEN [h1 EXCEPT ![c].hnext = n]
                           ELSE [h1 EXCEPT ![last].next = n]
    IN  [h2 EXCEPT ![c].hprev = n]

list_first(h, c) == IF h[c].hnext = -c THEN NULL ELSE h[c].hnext

list_next(h, n, c) == IF h[n].next = -c THEN NULL ELSE h[n].next

\* ast_module_create, ast_block_create, ..., ast_return_create after a
\* successful calloc: node.ext, node.ntype, list_initialize for a container
ast_node_create(h, t) ==
    LET h1 == Append(h, AstObj(t))
    IN  IF t \in NodeContainers \cup ElemContainers
        THEN list_initialize(h1, Len(h1)) ELSE h1

\* ast_fundef_create after a successful calloc: the three child pointers
ast_fundef_create(h, dspecs, fdecl, body) ==
    Append(h, [AstObj("ant_fundef") EXCEPT !.kids = <<dspecs, fdecl, body>>])

\* ast_module_append without the back-link assignment
ast_module_append_nolink(h, c, n) == list_append(h, n, c)

\* ast_module_append; ast_block_append, ast_sqlist_append and
\* ast_dspecs_append have the same body
ast_module_append(h, c, n) == [list_append(h, n, c) EXCEPT ![n].lnode = c]

\* ast_module_first (and _block_, _sqlist_, _dspecs_)
ast_module_first(h, c) == list_first(h, c)

\* ast_module_next for t = ant_module (and _block_, _sqlist_, _dspecs_):
\* the assertion on node->lnode->ntype, then list_next in that container
ast_module_next(h, n, t) ==
    IF h[n].lnode = NULL THEN Abort
    ELSE IF h[h[n].lnode].ntype # t THEN Abort
    ELSE list_next(h, n, h[n].lnode)

\* ast_tsrecord_append after a successful calloc (and ast_tsenum_append,
\* ast_dfun_append, ast_dlist_append): the element, its owner, list_append
ast_tsrecord_append(h, c) ==
    LET e == Len(h) + 1
        h1 == Append(h, [AstObj(ElemType(h[c].ntype)) EXCEPT !.lnode = c])
    IN  list_append(h1, e, c)

\* ast_tsrecord_first (and _tsenum_, _dfun_, _dlist_)
ast_tsrecord_first(h, c) == list_first(h, c)

\* ast_tsrecord_next (and _tsenum_, _dfun_, _dlist_): no assertion
ast_tsrecord_next(h, e) ==
    IF h[e].lnode = NULL THEN Abort ELSE list_next(h, e, h[e].lnode)

\* ast_tree_destroy: free(node->ext)
ast_tree_destroy(h, r) == [h EXCEPT ![r].live = FALSE]

\* the loop `for (n = first(c); n != NULL; n = next(n))` of a caller: the
\* children it visits, ended by Abort if a call aborts
RECURSIVE AstWalk(_, _, _, _)
AstWalk(h, t, n, k) ==
    IF n = NULL THEN <<>>
    ELSE IF n = Abort \/ k = 0 THEN <<Abort>>
    ELSE <<n>> \o AstWalk(h, t,
                     IF t \in NodeContainers THEN ast_module_next(h, n, t)
                                            ELSE ast_tsrecord_next(h, n),
                     k - 1)

AstEnum(h, c) ==
    AstWalk(h, h[c].ntype,
            IF h[c].ntype \in NodeContainers THEN ast_module_first(h, c)
                                             ELSE ast_tsrecord_first(h, c),
            Len(h))

\* the objects linked into c's list, read off the links alone
RECURSIVE ListWalk(_, _, _, _)
ListWalk(h, c, n, k) ==
    IF n = NULL \/ k = 0 THEN {}
    ELSE {n} \cup ListWalk(h, c, list_next(h, n, c), k - 1)

AstChildren(h, r) ==
    ((IF h[r].ntype \in NodeContainers \cup ElemContainers
      THEN ListWalk(h, r, list_first(h, r), Len(h)) ELSE {})
     \cup {h[r].kids[i] : i \in DOMAIN h[r].kids}) \ {NULL}

\* the tree rooted at r: r, the members of its lists, its child pointers
RECURSIVE AstTree(_, _, _)
AstTree(h, r, k) ==
    IF k = 0 THEN {r}
    ELSE {r} \cup UNION {AstTree(h, m, k - 1) : m \in AstChildren(h, r)}

\* a live node no container and no child pointer holds
AstRoot(h, n) ==
    /\ h[n].live
    /\ h[n].ntype \notin ElemTypes
    /\ h[n].lnode = NULL
    /\ \A m \in DOMAIN h : n \notin AstChildren(h, m)

AstInit ==
    /\ src = <<>>
    /\ file = <<>>
    /\ fixed = FALSE
    /\ clean = FALSE
    /\ phase = "idle"
    /\ fix = FALSE
    /\ toks = <<>>
    /\ plan = <<>>
    /\ tokdata = <<>>
    /\ pc = 0
    /\ cur = 0
    /\ rc = EOK
    /\ diags = <<>>
    /\ nins = 0
    /\ nrem = 0
    /\ mod = "none"
    /\ lost = 0
    /\ lexn = 0
    /\ prevrcs = <<>>
    /\ out = NoCall
    /\ heap = <<>>
    /\ applog = <<>>

\* the node types one run creates: any type for its first object, then that
\* type again, blocks and return statements
AstTypesAfter(h) ==
    IF h = <<>> THEN CreateTypes ELSE {h[1].ntype, "ant_block", "ant_return"}

\* ast_<type>_create(&node)
AstCreate ==
    /\ Len(heap) < MaxNodes
    /\ \E t \in AstTypesAfter(heap), ok \in BOOLEAN :
          /\ heap' = IF ok THEN ast_node_create(heap, t) ELSE heap
          /\ out' = [called |-> TRUE, op |-> "create",
                     rc |-> IF ok THEN EOK ELSE ENOMEM,
                     node |-> IF ok THEN Len(heap) + 1 ELSE NULL]
    /\ UNCHANGED <<cvars, applog>>

\* ast_fundef_create(dspecs, fdecl, body, &fundef), as test_ast_module and
\* test_ast_fundef call it
AstFundefCreate ==
    /\ Len(heap) < MaxNodes
    /\ \E dspecs \in {NULL} \cup {n \in DOMAIN heap :
                         AstRoot(heap, n) /\ heap[n].ntype = "ant_dspecs"},
          body \in {NULL} \cup {n \in DOMAIN heap :
                         AstRoot(heap, n) /\ heap[n].ntype = "ant_block"},
          ok \in BOOLEAN :
          /\ heap' = IF ok THEN ast_fundef_create(heap, dspecs, NULL, body)
                     ELSE heap
          /\ out' = [called |-> TRUE, op |-> "create",
                     rc |-> IF ok THEN EOK ELSE ENOMEM,
                     node |-> IF ok THEN Len(heap) + 1 ELSE NULL]
    /\ UNCHANGED <<cvars, applog>>

\* ast_module_append(module, node) and the other node containers' appends,
\* called as the parser and test/ast.c call them: with a node that is in no
\* tree yet
AstAppend ==
    /\ \E c \in DOMAIN heap, n \in DOMAIN heap :
          /\ heap[c].live
          /\ heap[c].ntype \in NodeContainers
          /\ AstRoot(heap, n)
          /\ c \notin AstTree(heap, n, Len(heap))
          /\ heap' = ast_module_append(heap, c, n)
          /\ applog' = Append(applog, <<c, n>>)
          /\ out' = [called |-> TRUE, op |-> "append", rc |-> EOK, node |-> c]
    /\ UNCHANGED cvars

\* ast_tsrecord_append(tsrecord, ...) and the other element containers'
\* appends
AstElemAppend ==
    /\ Len(heap) < MaxNodes
    /\ \E c \in DOMAIN heap, ok \in BOOLEAN :
          /\ heap[c].live
          /\ heap[c].ntype \in ElemContainers
          /\ heap' = IF ok THEN ast_tsrecord_append(heap, c) ELSE heap
          /\ applog' = IF ok THEN Append(applog, <<c, Len(heap) + 1>>)
                       ELSE applog
          /\ out' = [called |-> TRUE, op |-> "append",
                     rc |-> IF ok THEN EOK ELSE ENOMEM, node |-> c]
    /\ UNCHANGED cvars

\* a caller's first/next loop over a container
AstEnumerate ==
    /\ \E c \in DOMAIN heap :
          /\ heap[c].live
          /\ heap[c].ntype \in NodeContainers \cup ElemContainers
          /\ out' = [called |-> TRUE, op |-> "enum", rc |-> EOK, node |-> c,
                     res |-> AstEnum(heap, c)]
    /\ UNCHANGED <<cvars, heap, applog>>

\* ast_tree_destroy(root)
AstTreeDestroy ==
    /\ \E r \in DOMAIN heap :
          /\ AstRoot(heap, r)
          /\ heap' = ast_tree_destroy(heap, r)
          /\ out' = [called |-> TRUE, op |-> "destroy", rc |-> EOK,
                     node |-> r]
    /\ UNCHANGED <<cvars, applog>>

AstNext ==
    \/ AstCreate
    \/ AstFundefCreate
    \/ AstAppend
    \/ AstElemAppend
    \/ AstEnumerate
    \/ AstTreeDestroy

AstSpec == AstInit /\ [][AstNext]_vars

\* C26: after ast_tree_destroy on the root of a module or of a block, no
\* object of that tree (the root, the members of its lists, the nodes
\* behind child pointers) is still allocated.
C26_DestroyReleasesTree ==
    (out.called /\ out.op = "destroy"
        /\ heap[out.node].ntype \in {"ant_module", "ant_block"})
    => \A n \in AstTree(heap, out.node, Len(heap)) : ~heap[n].live

\* what ast_tree_destroy releases is the root object
C26_DestroyReleasesRoot ==
    (out.called /\ out.op = "destroy") => ~heap[out.node].live

\* the children appended to container c, oldest first
RECURSIVE AppendedTo(_, _)
AppendedTo(log, c) ==
    IF log = <<>> THEN <<>>
    ELSE (IF Head(log)[1] = c THEN <<Head(log)[2]>> ELSE <<>>)
         \o AppendedTo(Tail(log), c)

AstContainers(h) ==
    {c \in DOMAIN h : h[c].live
                      /\ h[c].ntype \in NodeContainers \cup ElemContainers}

\* C27: for every container, first/next enumerate exactly the appended
\* children in insertion order (first of an empty container and next of
\* the last child are NULL, so the enumeration ends there and no call
\* aborts), and each child's back-link designates the container it was
\* appended to, whose type is the one the matching next function asserts.
C27_ContainersEnumerate ==
    \A c \in AstContainers(heap) :
        LET kids == AppendedTo(applog, c)
            first == IF heap[c].ntype \in NodeContainers
                     THEN ast_module_first(heap, c)
                     ELSE ast_tsrecord_first(heap, c)
        IN  /\ AstEnum(heap, c) = kids
            /\ (kids = <<>>) => first = NULL
            /\ (kids # <<>>) =>
                  /\ first = kids[1]
                  /\ (IF heap[c].ntype \in NodeContainers
                      THEN ast_module_next(heap, kids[Len(kids)],
                                           heap[c].ntype)
                      ELSE ast_tsrecord_next(heap, kids[Len(kids)])) = NULL
            /\ \A i \in DOMAIN kids :
                  /\ heap[kids[i]].lnode = c
                  /\ heap[heap[kids[i]].lnode].ntype = heap[c].ntype

\* a container with two children has been walked by first/next
C27_Witness ==
    /\ out.called /\ out.op = "enum"
    /\ Len(out.res) = 2
    /\ out.res = AppendedTo(applog, out.node)
    /\ heap[out.node].ntype = "ant_block"

-----------------------------------------------------------------------------
(* C28: the eof token of the module's token sequence *)

\* the indices of the eof tokens of ts
EofAt(ts) == {i \in 1..Len(ts) : ts[i].ttype = "ltt_eof"}

\* C28: when checker_module_lex has returned EOK the token sequence is the
\* lexer's output in emission order; from then on, through every repair of
\* a fix-mode run, the sequence holds exactly one eof token and that token
\* is its last one.
C28_EofLast ==
    /\ (phase = "lexed" => toks = LexFile(file))
    /\ (mod = "mod" => EofAt(toks) = {Len(toks)})

\* a fix-mode run has removed whitespace that stood right before the eof
\* token and has gone through all its phases
C28_Witness ==
    /\ mod = "mod" /\ fix /\ phase = "ran" /\ rc = EOK
    /\ nrem > 0
    /\ Len(src) > 0 /\ src[Len(src)] \in {" ", "\t"}
    /\ EofAt(toks) = {Len(toks)}

-----------------------------------------------------------------------------
(* C30: the line pass terminates *)

\* tokens from the scan position `tok` of checker_module_lines to the end
ToScan(ts, c) == Len(ts) - c

\* C30: the line pass terminates, in check mode and in fix mode.  In every
\* state of the pass tok is a token of the sequence and not the eof token,
\* and the iteration of the outer loop made from it, whatever allocations
\* succeed, either fails in a repair (the pass returns the error) or leaves
\* strictly fewer tokens from tok to the end, the tokens from the new tok on
\* being the old tail of the sequence untouched: what a repair inserts lies
\* before tok and is not scanned again, and the sequence changes by the
\* tokens counted as inserted and removed.  The number of tokens from tok to
\* the end is a natural number, so the pass reaches the eof token and
\* returns.
C30_LinePassTerminates ==
    phase = "lines" =>
       /\ cur \in 1..Len(toks)
       /\ toks[cur].ttype # "ltt_eof"
       /\ \A na \in 0..MaxIndentAllocs(toks) :
             LET it == checker_module_lines(toks, cur, fix, na)
                 ts == it.res.toks
             IN  /\ Len(ts) = Len(toks) + it.res.nins - it.res.nrem
                 /\ it.res.nins >= 0 /\ it.res.nrem >= 0
                 /\ (~fix => it.res.nins = 0 /\ it.res.nrem = 0)
                 /\ it.res.rc = EOK =>
                       /\ it.tok \in 1..Len(ts)
                       /\ ToScan(ts, it.tok) < ToScan(toks, cur)
                       /\ SubSeq(ts, it.tok, Len(ts))
                            = SubSeq(toks, Len(toks) - ToScan(ts, it.tok),
                                     Len(toks))

\* a fix-mode line pass has inserted a continuation line's indentation and
\* has gone on to the eof token
C30_Witness ==
    /\ phase = "ran" /\ rc = EOK /\ fix
    /\ cur = Len(toks) /\ toks[cur].ttype = "ltt_eof"
    /\ \E k \in 1..(Len(toks) - cont_indent_spaces) :
          \A j \in 0..(cont_indent_spaces - 1) :
              toks[k + j].id = 0 /\ toks[k + j].ttype = "ltt_space"

====
